---- MODULE Spec2Model ----
(***************************************************************************)
(* Link extraction, de-duplication, tiered catalog matching and playlist   *)
(* chunking of the Apple Music -> Spotify playlist creator.                *)
(*                                                                         *)
(* Python lists are sequences, tuples are sequences, dicts are functions   *)
(* (records), an insertion-ordered dict is a sequence of its values with   *)
(* unique keys.  A string that the code takes apart is a sequence of       *)
(* one-character strings.                                                  *)
(***************************************************************************)
EXTENDS Integers, Sequences, FiniteSets, TLC

VARIABLES
    \* split_data_into_chunks: argument, argument, return value
    spotify_data, max_per_playlist, chunks,
    \* _deduplicate_links_by_date: argument, return value
    raw_links, unique_links,
    \* extract_links_from_content: argument, return value
    content, all_links_with_dates,
    \* find_equivalents: self.sp is set, argument, loop position, locals, return value
    sp, apple_music_links, link_index, track_info, spotify_result, results,
    \* the catalog calls made for the link being processed, with what they returned
    calls,
    \* create_spotify_playlist: the playlist created, the playlist_add_items
    \* calls and the album_tracks calls made, the locals album_tracks and
    \* invalid_album_ids, the invalid-album-IDs file, the return value
    playlist_id, add_calls, album_calls, album_tracks, invalid_album_ids,
    invalid_file, playlist_return,
    \* normalize_name, check_artist_match, check_track_match: the arguments,
    \* the successive results of normalize_name, the result of a check
    source_name, result_name, normalized, match_result,
    \* clean_link: argument, return value
    link_match, cleaned_link,
    \* extract_apple_music_ids: argument, return value
    apple_links, apple_ids,
    \* extract_music_links: the file_manager calls made, the return value
    file_calls, links_return,
    \* create_matched_playlist.main: the matches file and the music-links file,
    \* the invalid IDs that remove_invalid_album_ids was run with, the locals
    \* match_spotify_data and combined_data, the position in the loop over the
    \* chunks, created_playlists, and for every chunk of the run the invalid
    \* album IDs of its call and the invalid-IDs file after its call
    matches_file, music_links_file, removed_invalid_ids, match_spotify_data,
    combined_data, chunk_index, created_playlists, invalid_by_chunk, file_by_chunk,
    \* the position of the running program
    pc

chunkVars == <<spotify_data, max_per_playlist, chunks>>
dedupVars == <<raw_links, unique_links>>
extractVars == <<content, all_links_with_dates>>

matchVars == <<sp, apple_music_links, link_index, track_info, spotify_result,
               results, calls>>

playlistVars == <<playlist_id, add_calls, album_calls, album_tracks,
                  invalid_album_ids, invalid_file, playlist_return>>

nameVars == <<source_name, result_name, normalized, match_result>>

linkVars == <<link_match, cleaned_link>>

appleIdVars == <<apple_links, apple_ids>>

\* The state of the parts that come after clean_link in this module.
fileVars == <<file_calls, links_return>>

mainVars == <<matches_file, music_links_file, removed_invalid_ids, match_spotify_data,
              combined_data, chunk_index, created_playlists, invalid_by_chunk,
              file_by_chunk>>

restVars == <<appleIdVars, fileVars, mainVars>>

vars == <<chunkVars, dedupVars, extractVars, matchVars, playlistVars, nameVars,
          linkVars, restVars, pc>>

RECURSIVE SeqsUpTo(_, _)
\* All sequences over S of length at most n.
SeqsUpTo(S, n) ==
    IF n = 0 THEN {<<>>}
    ELSE LET shorter == SeqsUpTo(S, n - 1)
         IN  shorter \cup {Append(s, x) : s \in {t \in shorter : Len(t) = n - 1}, x \in S}

\* The set of elements of a sequence.
Range(s) == {s[i] : i \in 1..Len(s)}

(***************************************************************************)
(* Playlist chunker: create_matched_playlist.split_data_into_chunks        *)
(***************************************************************************)

\* Bounds of the chunker's inputs.
MaxTracks == 4
MaxAlbums == 3
MaxCapacity == 22

\* "Assume each album is approximately 10 songs"
songs_per_album == 10

\* Input track IDs, album IDs and playlist IDs: the first n IDs, in list order.
TrackList(n) == [i \in 1..n |-> i]
AlbumList(n) == [i \in 1..n |-> 100 + i]
PlaylistLists == {<<>>, <<201>>, <<201, 202>>}

\* spotify_data["ids"]: "playlists" is an optional key (.get("playlists", [])).
IdsInputs ==
    {[tracks |-> TrackList(n), albums |-> AlbumList(m)] :
        n \in 0..MaxTracks, m \in 0..MaxAlbums}
    \cup
    {[tracks |-> TrackList(n), albums |-> AlbumList(m), playlists |-> p] :
        n \in 0..MaxTracks, m \in 0..MaxAlbums, p \in PlaylistLists}

\* spotify_data["ids"].get("playlists", [])
get_playlists(ids) == IF "playlists" \in DOMAIN ids THEN ids.playlists ELSE <<>>

chunk_dict_without_playlists(ids, st) ==
    [tracks |-> st.current_chunk_tracks,
     albums |-> st.current_chunk_albums,
     playlists |-> <<>>]
\* The dict appended to chunks.
chunk_dict(ids, st) ==
    [tracks |-> st.current_chunk_tracks,
     albums |-> st.current_chunk_albums,
     playlists |-> get_playlists(ids)]

\* The loop state before the first track.
chunk_start ==
    [chunks |-> <<>>, current_chunk_tracks |-> <<>>,
     current_chunk_albums |-> <<>>, current_chunk_size |-> 0]

\* "save it and start a new one"
chunk_flush(ids, st) ==
    [chunks |-> Append(st.chunks, chunk_dict(ids, st)),
     current_chunk_tracks |-> <<>>, current_chunk_albums |-> <<>>,
     current_chunk_size |-> 0]

track_chunk_full_gt(size, cap) == size > cap
\* if current_chunk_size >= max_per_playlist
track_chunk_full(size, cap) == size >= cap

album_overflows_ge(size, cap) == size + songs_per_album >= cap
\* if current_chunk_size + songs_per_album > max_per_playlist
album_overflows(size, cap) == size + songs_per_album > cap

\* One iteration of "for track in tracks".
add_track(ids, st, track, cap) ==
    LET s == IF track_chunk_full(st.current_chunk_size, cap)
             THEN chunk_flush(ids, st) ELSE st
    IN  [s EXCEPT !.current_chunk_tracks = Append(@, track),
                  !.current_chunk_size = @ + 1]

\* One iteration of "for album in albums".
add_album(ids, st, album, cap) ==
    LET s == IF album_overflows(st.current_chunk_size, cap)
             THEN chunk_flush(ids, st) ELSE st
    IN  [s EXCEPT !.current_chunk_albums = Append(@, album),
                  !.current_chunk_size = @ + songs_per_album]

RECURSIVE add_tracks(_, _, _, _, _)
add_tracks(ids, st, tracks, i, cap) ==
    IF i > Len(tracks) THEN st
    ELSE add_tracks(ids, add_track(ids, st, tracks[i], cap), tracks, i + 1, cap)

RECURSIVE add_albums(_, _, _, _, _)
add_albums(ids, st, albums, i, cap) ==
    IF i > Len(albums) THEN st
    ELSE add_albums(ids, add_album(ids, st, albums[i], cap), albums, i + 1, cap)

add_last_chunk_forgotten(ids, st) == st.chunks
\* "Don't forget to add the last chunk if it has any tracks or albums"
add_last_chunk(ids, st) ==
    IF st.current_chunk_tracks # <<>> \/ st.current_chunk_albums # <<>>
    THEN Append(st.chunks, chunk_dict(ids, st))
    ELSE st.chunks

split_data_into_chunks(ids, cap) ==
    LET afterTracks == add_tracks(ids, chunk_start, ids.tracks, 1, cap)
        afterAlbums == add_albums(ids, afterTracks, ids.albums, 1, cap)
    IN  add_last_chunk(ids, afterAlbums)

ChunkIdle ==
    /\ spotify_data = [tracks |-> <<>>, albums |-> <<>>]
    /\ max_per_playlist = 0
    /\ chunks = <<>>

DedupIdle ==
    /\ raw_links = <<>>
    /\ unique_links = [raised |-> FALSE, links |-> <<>>]

ExtractIdle ==
    /\ content = <<>>
    /\ all_links_with_dates = <<>>

\* A return value None.
NoneResult == [none |-> TRUE]

MatchIdle ==
    /\ sp = FALSE
    /\ apple_music_links = <<>>
    /\ link_index = 0
    /\ track_info = NoneResult
    /\ spotify_result = NoneResult
    /\ results = NoneResult
    /\ calls = <<>>

PlaylistIdle ==
    /\ playlist_id = NoneResult
    /\ add_calls = <<>>
    /\ album_calls = <<>>
    /\ album_tracks = <<>>
    /\ invalid_album_ids = <<>>
    /\ invalid_file = NoneResult
    /\ playlist_return = NoneResult

NamesIdle ==
    /\ source_name = <<>>
    /\ result_name = <<>>
    /\ normalized = <<>>
    /\ match_result = FALSE

LinkIdle ==
    /\ link_match = <<>>
    /\ cleaned_link = <<>>

AppleIdIdle ==
    /\ apple_links = <<>>
    /\ apple_ids = NoneResult

FileIdle ==
    /\ file_calls = <<>>
    /\ links_return = NoneResult

MainIdle ==
    /\ matches_file = NoneResult
    /\ music_links_file = NoneResult
    /\ removed_invalid_ids = <<>>
    /\ match_spotify_data = NoneResult
    /\ combined_data = NoneResult
    /\ chunk_index = 0
    /\ created_playlists = <<>>
    /\ invalid_by_chunk = <<>>
    /\ file_by_chunk = <<>>

RestIdle == AppleIdIdle /\ FileIdle /\ MainIdle

InitChunk ==
    /\ spotify_data \in IdsInputs
    /\ max_per_playlist \in 0..MaxCapacity
    /\ chunks = <<>>
    /\ pc = "split"
    /\ DedupIdle
    /\ ExtractIdle
    /\ MatchIdle
    /\ PlaylistIdle
    /\ NamesIdle
    /\ LinkIdle
    /\ RestIdle

\* chunks = split_data_into_chunks(combined_data, 150)
SplitDataIntoChunks ==
    /\ pc = "split"
    /\ chunks' = split_data_into_chunks(spotify_data, max_per_playlist)
    /\ pc' = "split_done"
    /\ UNCHANGED <<spotify_data, max_per_playlist, dedupVars, extractVars, matchVars,
                   playlistVars, nameVars, linkVars, restVars>>

NextChunk == SplitDataIntoChunks

SpecChunk == InitChunk /\ [][NextChunk]_vars

\* The estimated size of a chunk: one per track, songs_per_album per album.
ChunkWeight(c) == Len(c.tracks) + songs_per_album * Len(c.albums)

ChunksDone == pc = "split_done"

\* C1 as stated: for every capacity value, every chunk returned by
\* split_data_into_chunks has len(tracks) + 10 * len(albums) <= capacity.
C1_WeightWithinAnyCapacity ==
    ChunksDone =>
        \A i \in 1..Len(chunks) : ChunkWeight(chunks[i]) <= max_per_playlist

\* C1 as amended: for every capacity of at least 10 (the weight of one album)
\* every chunk has len(tracks) + 10 * len(albums) <= capacity; for a capacity
\* from 1 to 9 this holds of every chunk that holds no album.
C1_WeightWithinCapacity ==
    ChunksDone =>
        \A i \in 1..Len(chunks) :
            (\/ max_per_playlist >= songs_per_album
             \/ max_per_playlist >= 1 /\ chunks[i].albums = <<>>)
            => ChunkWeight(chunks[i]) <= max_per_playlist

\* A run with several chunks, one filled to the capacity exactly and one that
\* mixes tracks and albums.
C1_Witness ==
    /\ ChunksDone
    /\ max_per_playlist >= songs_per_album
    /\ Len(chunks) >= 2
    /\ \E i \in 1..Len(chunks) : ChunkWeight(chunks[i]) = max_per_playlist
    /\ \E i \in 1..Len(chunks) : chunks[i].tracks # <<>> /\ chunks[i].albums # <<>>

\* C10: split_data_into_chunks never emits a chunk with neither tracks nor
\* albums, for any capacity, and returns no chunk exactly when the input has
\* no tracks and no albums.
C10_NoEmptyChunk ==
    ChunksDone =>
        /\ \A i \in 1..Len(chunks) :
              chunks[i].tracks # <<>> \/ chunks[i].albums # <<>>
        /\ (chunks = <<>>) <=>
              (spotify_data.tracks = <<>> /\ spotify_data.albums = <<>>)

\* ceil(n / c) for c >= 1
CeilDiv(n, c) == (n + c - 1) \div c

\* C11: for a tracks-only input of n tracks and capacity c >= 1 there are
\* ceil(n/c) chunks and every chunk but the last holds exactly c tracks; for
\* an albums-only input and capacity c >= 10 every chunk but the last holds
\* exactly floor(c/10) albums, so a chunk whose weight equals the capacity
\* is kept whole.
C11_ChunksFilledToCapacity ==
    ChunksDone =>
        /\ (spotify_data.albums = <<>> /\ max_per_playlist >= 1) =>
              /\ Len(chunks) = CeilDiv(Len(spotify_data.tracks), max_per_playlist)
              /\ \A i \in 1..(Len(chunks) - 1) :
                    Len(chunks[i].tracks) = max_per_playlist
        /\ (spotify_data.tracks = <<>> /\ max_per_playlist >= songs_per_album) =>
              \A i \in 1..(Len(chunks) - 1) :
                  /\ Len(chunks[i].albums) = max_per_playlist \div songs_per_album
                  /\ chunks[i].tracks = <<>>

\* Three albums and capacity 20: the first chunk holds two albums, weight 20,
\* and the second chunk the third album.
C11_Witness ==
    /\ ChunksDone
    /\ spotify_data.tracks = <<>>
    /\ max_per_playlist = 2 * songs_per_album
    /\ Len(chunks) = 2
    /\ Len(chunks[1].albums) = 2
    /\ Len(chunks[2].albums) = 1


\* The tracks and albums of a chunk.
TracksAndAlbums(c) == [tracks |-> c.tracks, albums |-> c.albums]

\* C24: every chunk carries the playlist IDs of the input unchanged (an empty
\* list when the input has none), and the playlists have no part in how the
\* tracks and albums are divided: the chunks hold the tracks and albums that
\* they hold for the same input without playlists.
C24_PlaylistsOnEveryChunk ==
    ChunksDone =>
        LET bare == split_data_into_chunks(TracksAndAlbums(spotify_data), max_per_playlist)
        IN  /\ \A i \in 1..Len(chunks) :
                  chunks[i].playlists = get_playlists(spotify_data)
            /\ Len(bare) = Len(chunks)
            /\ \A i \in 1..Len(chunks) :
                  TracksAndAlbums(chunks[i]) = TracksAndAlbums(bare[i])

\* An input with two playlist IDs that is split into several chunks.
C24_Witness ==
    /\ ChunksDone
    /\ "playlists" \in DOMAIN spotify_data
    /\ Len(spotify_data.playlists) = 2
    /\ Len(chunks) >= 2
    /\ \A i \in 1..Len(chunks) : chunks[i].playlists = spotify_data.playlists

RECURSIVE ConcatChunks(_, _, _)
\* The lists of one category of the chunks i.., one after the other.
ConcatChunks(chunk_list, category, i) ==
    IF i > Len(chunk_list) THEN <<>>
    ELSE chunk_list[i][category] \o ConcatChunks(chunk_list, category, i + 1)

\* C25: the track lists of the chunks, in output order, make up the input
\* track list, and likewise the albums; a chunk that holds a track comes
\* before every chunk that holds albums only, and at most one chunk holds
\* both tracks and albums.
C25_ChunksPartitionInput ==
    ChunksDone =>
        /\ ConcatChunks(chunks, "tracks", 1) = spotify_data.tracks
        /\ ConcatChunks(chunks, "albums", 1) = spotify_data.albums
        /\ \A i, j \in 1..Len(chunks) :
              (chunks[i].tracks # <<>> /\ chunks[j].tracks = <<>> /\ chunks[j].albums # <<>>)
              => i < j
        /\ Cardinality({i \in 1..Len(chunks) :
                           chunks[i].tracks # <<>> /\ chunks[i].albums # <<>>}) <= 1

\* Tracks and albums split into a chunk of both and a chunk of albums only.
C25_Witness ==
    /\ ChunksDone
    /\ Len(chunks) = 2
    /\ chunks[1].tracks # <<>> /\ chunks[1].albums # <<>>
    /\ chunks[2].tracks = <<>> /\ chunks[2].albums # <<>>


(***************************************************************************)
(* Link extractor: processing/link_extractor.py                            *)
(*                                                                         *)
(* A date string "DD/MM/YYYY" is the tuple <<DD, MM, YYYY>> of its fields  *)
(* in the order in which they are written.  A link is the sequence of its  *)
(* characters after the host: "A" stands for "https://music.apple.com/"    *)
(* and "S" for "https://open.spotify.com/".  A line of the chat export is  *)
(* the sequence of its date markers and links.                             *)
(***************************************************************************)

\* Bounds of the inputs.
MaxRaw == 3
MaxLines == 2
MaxTokens == 2

\* 01/02/2023 and 02/01/2023 order differently as text and as dates;
\* 31/02/2023 has the digit shape of a date and is none.
DateStrs == {<<1, 2, 2023>>, <<2, 1, 2023>>, <<15, 1, 2024>>, <<31, 2, 2023>>}
MarkerDates == {<<1, 2, 2023>>, <<2, 1, 2023>>, <<31, 2, 2023>>}
Links == {<<"A", "1">>, <<"S", "1">>}

\* Which of apple_pattern and spotify_pattern a link matched.
platform_of(link) == IF link[1] = "A" THEN "Apple Music" ELSE "Spotify"

\* calendar.isleap, used by datetime.strptime
is_leap(y) == (y % 4 = 0 /\ y % 100 # 0) \/ y % 400 = 0

days_in_month(m, y) ==
    IF m = 2 THEN (IF is_leap(y) THEN 29 ELSE 28)
    ELSE IF m \in {4, 6, 9, 11} THEN 30 ELSE 31

\* datetime.strptime(date_str, '%d/%m/%Y') raises ValueError unless this holds.
date_is_valid(d) ==
    /\ d[3] \in 1..9999
    /\ d[2] \in 1..12
    /\ d[1] \in 1..days_in_month(d[2], d[3])

\* datetime.strptime(date_str, '%d/%m/%Y') of a valid date string
strptime(d) == [year |-> d[3], month |-> d[2], day |-> d[1]]

\* The order of the date strings as text (fixed width, zero padded).
text_lt(a, b) ==
    \/ a[1] < b[1]
    \/ a[1] = b[1] /\ a[2] < b[2]
    \/ a[1] = b[1] /\ a[2] = b[2] /\ a[3] < b[3]

date_str_lt_as_text(cur, existing) == text_lt(cur, existing)
\* current_date_obj < existing_date_obj
date_str_lt(cur, existing) ==
    LET c == strptime(cur)
        e == strptime(existing)
    IN  \/ c.year < e.year
        \/ c.year = e.year /\ c.month < e.month
        \/ c.year = e.year /\ c.month = e.month /\ c.day < e.day

\* The position of the key link in the insertion-ordered dict, 0 if absent.
dict_index(d, link) ==
    IF \E i \in 1..Len(d) : d[i][1] = link
    THEN CHOOSE i \in 1..Len(d) : d[i][1] = link
    ELSE 0

dedup_step_replaces_on_tie(st, rec) ==
    LET i == dict_index(st.links, rec[1])
    IN  IF st.raised THEN st
        ELSE IF i = 0 THEN [st EXCEPT !.links = Append(@, rec)]
        ELSE IF ~date_is_valid(rec[3]) \/ ~date_is_valid(st.links[i][3])
             THEN [st EXCEPT !.raised = TRUE]
        ELSE IF ~date_str_lt(st.links[i][3], rec[3])
             THEN [st EXCEPT !.links[i] = rec]
        ELSE st

\* One iteration of "for link, platform, date_str in raw_links".
dedup_step(st, rec) ==
    LET i == dict_index(st.links, rec[1])
    IN  IF st.raised THEN st
        ELSE IF i = 0 THEN [st EXCEPT !.links = Append(@, rec)]
        ELSE IF ~date_is_valid(rec[3]) \/ ~date_is_valid(st.links[i][3])
             THEN [st EXCEPT !.raised = TRUE]
        ELSE IF date_str_lt(rec[3], st.links[i][3])
             THEN [st EXCEPT !.links[i] = rec]
        ELSE st

RECURSIVE dedup_loop(_, _, _)
dedup_loop(st, raw, i) ==
    IF i > Len(raw) THEN st
    ELSE dedup_loop(dedup_step(st, raw[i]), raw, i + 1)

\* The return value list(unique_links.values()), or the ValueError raised.
deduplicate_links_by_date(raw) ==
    dedup_loop([raised |-> FALSE, links |-> <<>>], raw, 1)

\* The function does not look at the platform field: two records of one URL
\* can differ in it, also when their dates are the same.
Platforms == {"Apple Music", "Spotify"}
RawRecords == {<<l, p, d>> : l \in Links, p \in Platforms, d \in DateStrs}

InitDedup ==
    /\ raw_links \in SeqsUpTo(RawRecords, MaxRaw)
    /\ unique_links = [raised |-> FALSE, links |-> <<>>]
    /\ pc = "dedup"
    /\ ChunkIdle
    /\ ExtractIdle
    /\ MatchIdle
    /\ PlaylistIdle
    /\ NamesIdle
    /\ LinkIdle
    /\ RestIdle

\* unique_links = _deduplicate_links_by_date(raw_links)
DeduplicateLinksByDate ==
    /\ pc = "dedup"
    /\ unique_links' = deduplicate_links_by_date(raw_links)
    /\ pc' = "dedup_done"
    /\ UNCHANGED <<raw_links, chunkVars, extractVars, matchVars, playlistVars, nameVars, linkVars, restVars>>

NextDedup == DeduplicateLinksByDate

SpecDedup == InitDedup /\ [][NextDedup]_vars

\* The tokens of a line: a date marker "[DD/MM/YYYY, ...]" or a link.
DateToken(d) == [kind |-> "date", date |-> d, text |-> <<>>]
LinkToken(l) == [kind |-> "link", date |-> <<>>, text |-> l]
Tokens == {DateToken(d) : d \in MarkerDates} \cup {LinkToken(l) : l \in Links}

\* for char in ['"', "'", ')', ']', '>', ',']
clean_chars == <<"\"", "'", ")", "]", ">", ",">>

\* link.split(char)[0]
split_first(link, char) ==
    IF \E i \in 1..Len(link) : link[i] = char
    THEN SubSeq(link, 1, (CHOOSE i \in 1..Len(link) :
                            link[i] = char /\ \A j \in 1..(i - 1) : link[j] # char) - 1)
    ELSE link

RECURSIVE clean_link_loop(_, _)
clean_link_loop(link, k) ==
    IF k > Len(clean_chars) THEN link
    ELSE clean_link_loop(split_first(link, clean_chars[k]), k + 1)

clean_link(link) == clean_link_loop(link, 1)

\* Bound on the number of characters of a matched link after its host.
MaxLinkChars == 4

\* The characters of a matched link (\S+): a plain one and those of clean_chars.
LinkChars == {"1", "\"", "'", ")", "]", ">", ","}

InitCleanLink ==
    /\ link_match \in {<<"A">> \o tail : tail \in SeqsUpTo(LinkChars, MaxLinkChars)}
    /\ cleaned_link = <<>>
    /\ pc = "clean_link"
    /\ ChunkIdle
    /\ DedupIdle
    /\ ExtractIdle
    /\ MatchIdle
    /\ PlaylistIdle
    /\ NamesIdle
    /\ RestIdle

\* clean_link(link_match)
CleanLink ==
    /\ pc = "clean_link"
    /\ cleaned_link' = clean_link(link_match)
    /\ pc' = "link_cleaned"
    /\ UNCHANGED <<link_match, chunkVars, dedupVars, extractVars, matchVars,
                   playlistVars, nameVars, restVars>>

NextCleanLink == CleanLink

SpecCleanLink == InitCleanLink /\ [][NextCleanLink]_vars

RECURSIVE StripTrailing(_)
\* The link without its trailing characters of clean_chars.
StripTrailing(link) ==
    IF link # <<>> /\ link[Len(link)] \in Range(clean_chars)
    THEN StripTrailing(SubSeq(link, 1, Len(link) - 1))
    ELSE link

\* C19: clean_link removes the trailing characters " ' ) ] > , until the last
\* character is none of them, and nothing else.
C19_OnlyTrailingRemoved ==
    pc = "link_cleaned" => cleaned_link = StripTrailing(link_match)

\* re.search(date_pattern, line): the position of the first marker, 0 if none.
date_match(line) ==
    IF \E i \in 1..Len(line) : line[i].kind = "date"
    THEN CHOOSE i \in 1..Len(line) :
            line[i].kind = "date" /\ \A j \in 1..(i - 1) : line[j].kind # "date"
    ELSE 0

\* The absent current date (current_date = None).
NoDate == <<>>

line_date_no_carry(line, current_date) ==
    IF date_match(line) # 0 THEN line[date_match(line)].date ELSE NoDate
\* if date_match: current_date = date_match.group(1)
line_date(line, current_date) ==
    IF date_match(line) # 0 THEN line[date_match(line)].date ELSE current_date

RECURSIVE findall(_, _, _)
\* re.findall(pattern, line) for the pattern of the host h, from token i on
findall(line, h, i) ==
    IF i > Len(line) THEN <<>>
    ELSE IF line[i].kind = "link" /\ line[i].text[1] = h
         THEN <<line[i].text>> \o findall(line, h, i + 1)
         ELSE findall(line, h, i + 1)

\* The records that one line appends: the Apple Music links, then the Spotify links.
line_records(line, current_date) ==
    LET apple == findall(line, "A", 1)
        spotify == findall(line, "S", 1)
    IN  [k \in 1..Len(apple) |-> <<clean_link(apple[k]), "Apple Music", current_date>>]
        \o [k \in 1..Len(spotify) |-> <<clean_link(spotify[k]), "Spotify", current_date>>]

RECURSIVE extract_loop(_, _, _, _)
\* for line in lines
extract_loop(lines, i, current_date, acc) ==
    IF i > Len(lines) THEN acc
    ELSE LET d == line_date(lines[i], current_date)
         IN  IF d = NoDate
             THEN extract_loop(lines, i + 1, d, acc)
             ELSE extract_loop(lines, i + 1, d, acc \o line_records(lines[i], d))

extract_links_from_content(lines) == extract_loop(lines, 1, NoDate, <<>>)

LineInputs == SeqsUpTo(Tokens, MaxTokens)

InitExtract ==
    /\ content \in SeqsUpTo(LineInputs, MaxLines)
    /\ all_links_with_dates = <<>>
    /\ pc = "read_text"
    /\ ChunkIdle
    /\ DedupIdle
    /\ MatchIdle
    /\ PlaylistIdle
    /\ NamesIdle
    /\ LinkIdle
    /\ RestIdle

\* The value of MUSIC_LINKS_CSV.
MusicLinksCsv == [path |-> "MUSIC_LINKS_CSV"]

\* A ValueError that leaves extract_music_links.
ValueErrorRaised == [raised |-> "ValueError"]

\* content = file_manager.read_text(CHAT_EXPORT), or return None
ReadText ==
    /\ pc = "read_text"
    /\ \E raised \in BOOLEAN :
          /\ file_calls' = Append(file_calls, [op |-> "read_text", raised |-> raised])
          /\ pc' = IF raised THEN "links_returned" ELSE "extract"
    /\ links_return' = NoneResult
    /\ UNCHANGED <<extractVars, chunkVars, dedupVars, matchVars, playlistVars, nameVars,
                   linkVars, appleIdVars, mainVars>>

\* raw_links = extract_links_from_content(content)
ExtractLinksFromContent ==
    /\ pc = "extract"
    /\ all_links_with_dates' = extract_links_from_content(content)
    /\ pc' = "extract_done"
    /\ UNCHANGED <<content, chunkVars, dedupVars, matchVars, playlistVars, nameVars, linkVars, restVars>>

\* extract_music_links after the extraction: None when there are no links,
\* else unique_links = _deduplicate_links_by_date(raw_links)
DeduplicateExtractedLinks ==
    /\ pc = "extract_done"
    /\ IF all_links_with_dates = <<>>
       THEN /\ pc' = "links_returned"
            /\ UNCHANGED dedupVars
       ELSE /\ raw_links' = all_links_with_dates
            /\ unique_links' = deduplicate_links_by_date(all_links_with_dates)
            /\ pc' = "links_deduplicated"
    /\ UNCHANGED <<extractVars, chunkVars, matchVars, playlistVars, nameVars, linkVars, restVars>>

\* The ValueError of _deduplicate_links_by_date is caught nowhere.
DeduplicationRaises ==
    /\ pc = "links_deduplicated"
    /\ unique_links.raised
    /\ links_return' = ValueErrorRaised
    /\ pc' = "links_returned"
    /\ UNCHANGED <<file_calls, extractVars, chunkVars, dedupVars, matchVars, playlistVars,
                   nameVars, linkVars, appleIdVars, mainVars>>

\* _save_links_to_csv_and_report and the return: the path if write_csv
\* succeeded, None if it raised.
SaveLinksToCsvAndReport ==
    /\ pc = "links_deduplicated"
    /\ ~unique_links.raised
    /\ \E raised \in BOOLEAN :
          /\ file_calls' = Append(file_calls, [op |-> "write_csv", raised |-> raised,
                                               data |-> unique_links.links])
          /\ links_return' = IF raised THEN NoneResult ELSE MusicLinksCsv
    /\ pc' = "links_returned"
    /\ UNCHANGED <<extractVars, chunkVars, dedupVars, matchVars, playlistVars, nameVars,
                   linkVars, appleIdVars, mainVars>>

NextExtract ==
    \/ ReadText
    \/ ExtractLinksFromContent
    \/ DeduplicateExtractedLinks
    \/ DeduplicationRaises
    \/ SaveLinksToCsvAndReport

SpecExtract == InitExtract /\ [][NextExtract]_vars

\* The one call of write_csv with the de-duplicated records.
WrittenOnce ==
    /\ Len(file_calls) = 2
    /\ file_calls[2].op = "write_csv"
    /\ ~unique_links.raised
    /\ file_calls[2].data = unique_links.links

\* C23: extract_music_links returns None without writing when reading raises
\* or the content has no links, None when the write raises, and otherwise
\* writes the de-duplicated records exactly once and returns the CSV path.
C23_NoneOnFailureElsePath ==
    pc = "links_returned" =>
        IF file_calls[1].raised \/ extract_links_from_content(content) = <<>>
        THEN links_return = NoneResult /\ Len(file_calls) = 1
        ELSE /\ WrittenOnce
             /\ links_return = IF file_calls[2].raised THEN NoneResult ELSE MusicLinksCsv

\* A day count that grows with the calendar date (used to state claims only).
DayNumber(d) == (d[3] * 12 + d[2]) * 31 + d[1]

AllDatesValid(raw) == \A i \in 1..Len(raw) : date_is_valid(raw[i][3])

\* C2: for records with valid dates, _deduplicate_links_by_date returns
\* exactly one record per distinct URL of the input, an input record of that
\* URL, and its date is the earliest calendar date among the input records
\* of that URL.
C2_OnePerUrlEarliestDate ==
    (pc = "dedup_done" /\ AllDatesValid(raw_links)) =>
        LET out == unique_links.links
        IN  /\ ~unique_links.raised
            /\ \A k \in 1..Len(out) : \E i \in 1..Len(raw_links) : raw_links[i] = out[k]
            /\ \A i \in 1..Len(raw_links) :
                  /\ Cardinality({k \in 1..Len(out) : out[k][1] = raw_links[i][1]}) = 1
                  /\ \A k \in 1..Len(out) :
                        out[k][1] = raw_links[i][1]
                        => DayNumber(out[k][3]) <= DayNumber(raw_links[i][3])

\* A URL seen twice, the second time with the earlier date although its date
\* string is the greater text, and the second record is the one returned.
C2_Witness ==
    /\ pc = "dedup_done"
    /\ AllDatesValid(raw_links)
    /\ \E i, j \in 1..Len(raw_links) :
          /\ i < j
          /\ raw_links[i][1] = raw_links[j][1]
          /\ DayNumber(raw_links[j][3]) < DayNumber(raw_links[i][3])
          /\ text_lt(raw_links[i][3], raw_links[j][3])
          /\ \E k \in 1..Len(unique_links.links) : unique_links.links[k] = raw_links[j]

\* The position at which a URL first occurs in the input.
FirstIndex(raw, url) ==
    CHOOSE i \in 1..Len(raw) : raw[i][1] = url /\ \A j \in 1..(i - 1) : raw[j][1] # url

\* C12: when no date comparison raised, the output lists one record per URL
\* in the order in which the URLs first occurred in the input (also when a
\* record was replaced by an earlier-dated one), and the record of a URL is the
\* first-seen among its records with the earliest calendar date (on a tie the
\* first-seen record stays).
C12_FirstSeenKeptInFirstSeenOrder ==
    (pc = "dedup_done" /\ ~unique_links.raised) =>
        LET out == unique_links.links
        IN  /\ {out[k][1] : k \in 1..Len(out)} = {raw_links[i][1] : i \in 1..Len(raw_links)}
            /\ \A a, b \in 1..Len(out) :
                  a < b => FirstIndex(raw_links, out[a][1]) < FirstIndex(raw_links, out[b][1])
            /\ \A k \in 1..Len(out) :
                  \E i \in 1..Len(raw_links) :
                      /\ raw_links[i] = out[k]
                      /\ \A j \in 1..Len(raw_links) :
                            raw_links[j][1] = out[k][1] =>
                                /\ j < i => DayNumber(raw_links[j][3]) > DayNumber(raw_links[i][3])
                                /\ j > i => DayNumber(raw_links[j][3]) >= DayNumber(raw_links[i][3])

\* Two different records of one URL with the same date: the first is returned,
\* the second is not.
C12_Witness ==
    /\ pc = "dedup_done"
    /\ ~unique_links.raised
    /\ \E i, j \in 1..Len(raw_links) :
          /\ i < j
          /\ raw_links[i][1] = raw_links[j][1]
          /\ raw_links[i][3] = raw_links[j][3]
          /\ raw_links[i] # raw_links[j]
          /\ \E k \in 1..Len(unique_links.links) : unique_links.links[k] = raw_links[i]
          /\ \A k \in 1..Len(unique_links.links) : unique_links.links[k] # raw_links[j]

\* The date that holds on line i: the first marker of the closest line at or
\* before i that has a marker, NoDate when there is none.
DateInForce(lines, i) ==
    LET K == {k \in 1..i : date_match(lines[k]) # 0}
    IN  IF K = {} THEN NoDate
        ELSE LET k == CHOOSE k \in K : \A j \in K : j <= k
             IN  lines[k][date_match(lines[k])].date

RECURSIVE TaggedLinks(_, _)
\* The links of the first n lines, each with the date in force on its line.
TaggedLinks(lines, n) ==
    IF n = 0 THEN <<>>
    ELSE TaggedLinks(lines, n - 1) \o
         (IF DateInForce(lines, n) = NoDate THEN <<>>
          ELSE line_records(lines[n], DateInForce(lines, n)))

\* C3: extract_links_from_content tags every link with the date of the marker
\* on its own line (also when the marker stands after the link) or else of the
\* closest earlier line that has one; a link with no marker on its line or
\* before it produces no record.
C3_LinksTaggedWithDateInForce ==
    pc = "extract_done" =>
        all_links_with_dates = TaggedLinks(content, Len(content))

\* A line whose marker stands after its link, followed by a line without a
\* marker that has a link: both links are extracted.
C3_Witness ==
    /\ pc = "extract_done"
    /\ Len(all_links_with_dates) >= 2
    /\ \E i, j \in 1..Len(content) :
          /\ i < j
          /\ Len(content[i]) = 2
          /\ content[i][1].kind = "link" /\ content[i][2].kind = "date"
          /\ date_match(content[j]) = 0
          /\ content[j] # <<>>

\* The date in force on line i when a marker that is no calendar date changes
\* nothing: the first marker of the closest line at or before i whose first
\* marker is a calendar date.
ValidDateInForce(lines, i) ==
    LET K == {k \in 1..i : /\ date_match(lines[k]) # 0
                           /\ date_is_valid(lines[k][date_match(lines[k])].date)}
    IN  IF K = {} THEN NoDate
        ELSE LET k == CHOOSE k \in K : \A j \in K : j <= k
             IN  lines[k][date_match(lines[k])].date

RECURSIVE ValidTaggedLinks(_, _)
ValidTaggedLinks(lines, n) ==
    IF n = 0 THEN <<>>
    ELSE ValidTaggedLinks(lines, n - 1) \o
         (IF ValidDateInForce(lines, n) = NoDate THEN <<>>
          ELSE line_records(lines[n], ValidDateInForce(lines, n)))

\* C15: a marker with the digit shape of a date that is no calendar date
\* leaves the current date unchanged, so every link is tagged with the last
\* marker that is a calendar date; and extraction followed by deduplication
\* does not raise.
C15_InvalidDateChangesNothing ==
    /\ pc = "extract_done" =>
          all_links_with_dates = ValidTaggedLinks(content, Len(content))
    /\ pc = "links_deduplicated" => ~unique_links.raised

(***************************************************************************)
(* Name normalisation and match verification:                              *)
(* apple_to_spotify/spotify_matcher/base.py                                *)
(*                                                                         *)
(* A name is the sequence of its characters; None is a value of its own.   *)
(***************************************************************************)

\* None: a value that is no string (every element of a string is one character).
None == <<"None">>

\* Python's truth value of a name: false for None and for "".
truthy(name) == name # None /\ name # <<>>

Whitespace == {" ", "\t", "\n", "\r", "\f"}
UpperCase == <<"A", "B", "C", "D", "E", "F", "G", "H", "I", "J", "K", "L", "M",
               "N", "O", "P", "Q", "R", "S", "T", "U", "V", "W", "X", "Y", "Z">>
LowerCase == <<"a", "b", "c", "d", "e", "f", "g", "h", "i", "j", "k", "l", "m",
               "n", "o", "p", "q", "r", "s", "t", "u", "v", "w", "x", "y", "z">>
Digits == {"0", "1", "2", "3", "4", "5", "6", "7", "8", "9"}

\* \w of the re module, for the ASCII characters
is_word_char(c) == c \in Range(UpperCase) \cup Range(LowerCase) \cup Digits \cup {"_"}

\* str.lower() of one character
lower_char(c) ==
    IF c \in Range(UpperCase)
    THEN LowerCase[CHOOSE i \in 1..Len(UpperCase) : UpperCase[i] = c]
    ELSE c

\* name.lower()
lower(name) == [i \in 1..Len(name) |-> lower_char(name[i])]

\* The first index >= from whose character is in S, 0 if there is none.
first_in(name, from, S) ==
    IF \E i \in from..Len(name) : name[i] \in S
    THEN CHOOSE i \in from..Len(name) :
            name[i] \in S /\ \A j \in from..(i - 1) : name[j] \notin S
    ELSE 0

\* Where a greedy \s* that starts at p stops: the first index >= p that holds
\* no whitespace (Len(name) + 1 if the whitespace runs to the end).
skip_ws(name, p) ==
    IF \E i \in p..Len(name) : name[i] \notin Whitespace
    THEN CHOOSE i \in p..Len(name) :
            name[i] \notin Whitespace /\ \A j \in p..(i - 1) : name[j] \in Whitespace
    ELSE Len(name) + 1

\* Whether the literal word stands in name at index k.
has_at(name, k, word) ==
    /\ k >= 1
    /\ k + Len(word) - 1 <= Len(name)
    /\ SubSeq(name, k, k + Len(word) - 1) = word

\* The index of the first closing bracket at or after from that no line break
\* precedes ('.' does not match a line break), 0 if there is none.
lazy_to_close(name, from) ==
    LET e == first_in(name, from, {")", "]", "\n"})
    IN  IF e # 0 /\ name[e] # "\n" THEN e ELSE 0

\* The end of the match of r'\s*[\(\[]feat\.?.*?[\)\]]' that starts at p, 0 if none.
feat_match_end(name, p) ==
    LET q == skip_ws(name, p)
    IN  IF q <= Len(name) /\ name[q] \in {"(", "["}
           /\ has_at(name, q + 1, <<"f", "e", "a", "t">>)
        THEN lazy_to_close(name, q + 5)
        ELSE 0

\* The end of the match of r'\s*ft\.?.*?$' that starts at p, -1 if none
\* ('$' matches at the end and before a line break that ends the string).
ft_match_end(name, p) ==
    LET q == skip_ws(name, p)
        n == first_in(name, q + 2, {"\n"})
    IN  IF has_at(name, q, <<"f", "t">>)
        THEN IF n = 0 THEN Len(name)
             ELSE IF n = Len(name) THEN Len(name) - 1
             ELSE -1
        ELSE -1

\* (remix|version|edit|remaster)
version_words ==
    <<<<"r", "e", "m", "i", "x">>, <<"v", "e", "r", "s", "i", "o", "n">>,
      <<"e", "d", "i", "t">>, <<"r", "e", "m", "a", "s", "t", "e", "r">>>>

\* The end of a match of '(remix|version|edit|remaster).*?[\)\]]' at k, 0 if none.
version_tail_end(name, k) ==
    IF \E w \in 1..Len(version_words) : has_at(name, k, version_words[w])
    THEN LET w == CHOOSE w \in 1..Len(version_words) :
                    /\ has_at(name, k, version_words[w])
                    /\ \A v \in 1..(w - 1) : ~has_at(name, k, version_words[v])
         IN  lazy_to_close(name, k + Len(version_words[w]))
    ELSE 0

\* The end of the match of
\* r'\s*[\(\[].*?(remix|version|edit|remaster).*?[\)\]]' that starts at p, 0 if none.
version_match_end(name, p) ==
    LET q == skip_ws(name, p)
        nl == first_in(name, q + 1, {"\n"})
        last == IF nl = 0 THEN Len(name) ELSE nl - 1
        K == {k \in (q + 1)..last : version_tail_end(name, k) # 0}
    IN  IF q <= Len(name) /\ name[q] \in {"(", "["} /\ K # {}
        THEN version_tail_end(name, CHOOSE k \in K : \A j \in K : k <= j)
        ELSE 0

RECURSIVE sub_feat(_, _)
\* re.sub(r'\s*[\(\[]feat\.?.*?[\)\]]', '', name), from index p on
sub_feat(name, p) ==
    IF p > Len(name) THEN <<>>
    ELSE IF feat_match_end(name, p) # 0 THEN sub_feat(name, feat_match_end(name, p) + 1)
    ELSE <<name[p]>> \o sub_feat(name, p + 1)

RECURSIVE sub_ft(_, _)
\* re.sub(r'\s*ft\.?.*?$', '', name), from index p on
sub_ft(name, p) ==
    IF p > Len(name) THEN <<>>
    ELSE IF ft_match_end(name, p) # -1 THEN sub_ft(name, ft_match_end(name, p) + 1)
    ELSE <<name[p]>> \o sub_ft(name, p + 1)

RECURSIVE sub_version(_, _)
\* re.sub(r'\s*[\(\[].*?(remix|version|edit|remaster).*?[\)\]]', '', name), from p on
sub_version(name, p) ==
    IF p > Len(name) THEN <<>>
    ELSE IF version_match_end(name, p) # 0
         THEN sub_version(name, version_match_end(name, p) + 1)
    ELSE <<name[p]>> \o sub_version(name, p + 1)

\* re.sub(r'[^\w\s]', ' ', name)
sub_punctuation(name) ==
    [i \in 1..Len(name) |->
        IF is_word_char(name[i]) \/ name[i] \in Whitespace THEN name[i] ELSE " "]

RECURSIVE collapse_ws(_, _)
\* re.sub(r'\s+', ' ', name), from index p on
collapse_ws(name, p) ==
    IF p > Len(name) THEN <<>>
    ELSE IF name[p] \in Whitespace THEN <<" ">> \o collapse_ws(name, skip_ws(name, p))
    ELSE <<name[p]>> \o collapse_ws(name, p + 1)

\* str.strip()
strip(name) ==
    LET a == skip_ws(name, 1)
        b == IF a > Len(name) THEN 0
             ELSE CHOOSE i \in a..Len(name) :
                    name[i] \notin Whitespace
                    /\ \A j \in (i + 1)..Len(name) : name[j] \in Whitespace
    IN  IF a > Len(name) THEN <<>> ELSE SubSeq(name, a, b)

normalize_name(name) ==
    IF ~truthy(name) THEN <<>>
    ELSE strip(collapse_ws(sub_punctuation(
            sub_version(sub_ft(sub_feat(lower(name), 1), 1), 1)), 1))

\* a in b, for strings
is_substring(a, b) ==
    \E i \in 0..(Len(b) - Len(a)) : SubSeq(b, i + 1, i + Len(a)) = a

RECURSIVE split_on(_, _, _)
\* str.split(sep) for a one-character separator, from index p on
split_on(name, sep, p) ==
    LET e == first_in(name, p, {sep})
    IN  IF e = 0 THEN <<SubSeq(name, p, Len(name))>>
        ELSE <<SubSeq(name, p, e - 1)>> \o split_on(name, sep, e + 1)

RECURSIVE split_words(_, _)
\* str.split(): the whitespace-separated words, from index p on
split_words(name, p) ==
    LET a == skip_ws(name, p)
        e == first_in(name, a, Whitespace)
    IN  IF a > Len(name) THEN <<>>
        ELSE IF e = 0 THEN <<SubSeq(name, a, Len(name))>>
        ELSE <<SubSeq(name, a, e - 1)>> \o split_words(name, e)

check_artist_match(source_artist, result_artist) ==
    IF ~truthy(source_artist) \/ ~truthy(result_artist) THEN FALSE
    ELSE LET s == normalize_name(source_artist)
             r == normalize_name(result_artist)
             source_artists == split_on(s, "&", 1)
             result_artists == split_on(r, "&", 1)
         IN  \/ s = r
             \/ is_substring(s, r) \/ is_substring(r, s)
             \/ \E i \in 1..Len(source_artists), j \in 1..Len(result_artists) :
                    \/ is_substring(strip(source_artists[i]), strip(result_artists[j]))
                    \/ is_substring(strip(result_artists[j]), strip(source_artists[i]))

check_track_match(source_track, result_track) ==
    LET s == normalize_name(source_track)
        r == normalize_name(result_track)
        source_words == Range(split_words(s, 1))
        result_words == Range(split_words(r, 1))
        larger == IF Cardinality(source_words) >= Cardinality(result_words)
                  THEN Cardinality(source_words) ELSE Cardinality(result_words)
    IN  \/ s = r
        \/ is_substring(s, r) \/ is_substring(r, s)
        \/ /\ source_words # {}
           /\ result_words # {}
           /\ 10 * Cardinality(source_words \cap result_words) >= 7 * larger

\* Bounds of the names: a name is made of at most MaxNameTokens pieces, and
\* normalize_name is applied to its own result up to MaxNormalizations times.
MaxNameTokens == 3
MaxNormalizations == 2

\* The pieces of which the names are made.
NameTokens ==
    {<<"f">>, <<"t">>, <<"x">>, <<" ">>, <<"\n">>, <<"!">>,
     <<"(", "r", "e", "m", "i", "x", ")">>}

RECURSIVE Flatten(_)
\* The concatenation of a sequence of strings.
Flatten(pieces) ==
    IF pieces = <<>> THEN <<>> ELSE Head(pieces) \o Flatten(Tail(pieces))

SourceNames == {None} \cup {Flatten(pieces) : pieces \in SeqsUpTo(NameTokens, MaxNameTokens)}
ResultNames == {None, <<>>, <<"!">>, <<"x">>, <<"x", " ", "t">>}

\* The names of the artists of a collaboration, and "X & Y".
ArtistNames == {<<"x">>, <<"t">>, <<"x", "t">>}
Collaboration(X, Y) == X \o <<" ", "&", " ">> \o Y

InitNames ==
    /\ \/ source_name \in SourceNames /\ result_name \in ResultNames
       \/ \E X, Y \in ArtistNames :
             /\ source_name = Collaboration(X, Y)
             /\ result_name = Collaboration(Y, X)
    /\ normalized = <<>>
    /\ match_result = FALSE
    /\ pc = "names"
    /\ ChunkIdle
    /\ DedupIdle
    /\ ExtractIdle
    /\ MatchIdle
    /\ PlaylistIdle
    /\ LinkIdle
    /\ RestIdle

namesOtherVars == <<chunkVars, dedupVars, extractVars, matchVars, playlistVars, linkVars, restVars>>

\* normalize_name(source_name), and normalize_name of the result of that
NormalizeName ==
    /\ pc \in {"names", "normalized"}
    /\ Len(normalized) < MaxNormalizations
    /\ normalized' = Append(normalized,
                            normalize_name(IF normalized = <<>> THEN source_name
                                           ELSE normalized[Len(normalized)]))
    /\ pc' = "normalized"
    /\ UNCHANGED <<source_name, result_name, match_result, namesOtherVars>>

\* check_artist_match(source_name, result_name)
CheckArtistMatch ==
    /\ pc = "names"
    /\ match_result' = check_artist_match(source_name, result_name)
    /\ pc' = "artist_checked"
    /\ UNCHANGED <<source_name, result_name, normalized, namesOtherVars>>

\* check_track_match(source_name, result_name)
CheckTrackMatch ==
    /\ pc = "names"
    /\ match_result' = check_track_match(source_name, result_name)
    /\ pc' = "track_checked"
    /\ UNCHANGED <<source_name, result_name, normalized, namesOtherVars>>

NextNames ==
    \/ NormalizeName
    \/ CheckArtistMatch
    \/ CheckTrackMatch

SpecNames == InitNames /\ [][NextNames]_vars

\* C16: normalize_name applied to its own result gives that result again.
C16_NormalizeIdempotent ==
    pc = "normalized" =>
        \A i \in 2..Len(normalized) : normalized[i] = normalized[i - 1]

\* C17: check_artist_match and check_track_match return false when either
\* argument is empty after normalize_name.
C17_EmptyAfterNormalizeNoMatch ==
    (/\ pc \in {"artist_checked", "track_checked"}
     /\ \/ normalize_name(source_name) = <<>>
        \/ normalize_name(result_name) = <<>>)
    => ~match_result

\* C18: check_artist_match("X & Y", "Y & X") is true for all artist names X, Y.
C18_CollaborationOrderIndependent ==
    (/\ pc = "artist_checked"
     /\ \E X, Y \in ArtistNames :
           /\ source_name = Collaboration(X, Y)
           /\ result_name = Collaboration(Y, X))
    => match_result

(***************************************************************************)
(* Tiered search: conversion/spotify_matcher/track_matcher.py,             *)
(* apple_to_spotify/spotify_matcher/album_matcher.py, and the batch loop   *)
(* SpotifyMatcher.find_equivalents of base.py.                             *)
(*                                                                         *)
(* Every catalog call is a step of its own: the catalog answers with any   *)
(* list of at most `limit` records, or the call raises.                    *)
(***************************************************************************)

\* Bounds: the links of one batch, the records of one catalog answer.
MaxLinks == 2
MaxResults == 2

\* An Apple Music link with a track parameter and one without.
SongLink == <<"A", "/", "7", "?", "i", "=", "8">>
AlbumLink == <<"A", "/", "7">>

\* What the pages name: the title, the artist, the album.
TitleName == <<"a", "b">>
ArtistName == <<"x">>
AlbumName == <<"l">>

\* The dict that AppleMusicParser.get_track_info returns for a link: the
\* error dict, or the URL, the page type and the fields the page had.
TrackInfoDict(link, is_song, keys) ==
    [k \in {"url", "is_song"} \cup keys |->
        CASE k = "url" -> link
          [] k = "is_song" -> is_song
          [] k = "track" -> TitleName
          [] k = "artist" -> ArtistName
          [] k = "album" -> AlbumName]

ParserOutcomes(link) ==
    {[url |-> link, error |-> "error"]}
    \cup {TrackInfoDict(link, TRUE, keys) : keys \in SUBSET {"track", "artist", "album"}}
    \cup {TrackInfoDict(link, FALSE, keys) : keys \in SUBSET {"track", "artist"}}

\* Catalog records: a track, an album, an artist.
TrackObject(id, name, artist) ==
    [id |-> id, name |-> name, artist |-> artist,
     uri |-> <<"spotify", "track", id>>, url |-> <<"open.spotify.com", "track", id>>]
AlbumObject(id, name, artist, total_tracks) ==
    [id |-> id, name |-> name, artist |-> artist,
     url |-> <<"open.spotify.com", "album", id>>, total_tracks |-> total_tracks]
ArtistObject(id, name) == [id |-> id, name |-> name]

\* Tracks whose title and artist both match the source, whose artist alone
\* matches, and whose title alone matches.
TrackCandidates ==
    {TrackObject(1, <<"A", "b">>, <<"x">>), TrackObject(2, <<"a", "b">>, <<"X">>),
     TrackObject(3, <<"c">>, <<"x">>), TrackObject(4, <<"a", "b">>, <<"y">>)}
AlbumCandidates ==
    {AlbumObject(11, <<"a", "b">>, <<"x">>, 2), AlbumObject(12, <<"a", "b">>, <<"y">>, 1),
     AlbumObject(13, <<"a", "b">>, <<"x">>, 0)}
AlbumTrackCandidates ==
    {TrackObject(5, <<"c">>, <<"x">>), TrackObject(6, <<"d">>, <<"x">>)}
ArtistCandidates == {ArtistObject(21, <<"x">>)}

Min(a, b) == IF a <= b THEN a ELSE b

\* What a catalog call can do: raise, or return at most `limit` records.
Answers(candidates, limit) ==
    {[raised |-> TRUE, items |-> <<>>]}
    \cup {[raised |-> FALSE, items |-> items] :
            items \in SeqsUpTo(candidates, Min(limit, MaxResults))}

TrackAnswers5 == Answers(TrackCandidates, 5)
TrackAnswers3 == Answers(TrackCandidates, 3)
AlbumAnswers3 == Answers(AlbumCandidates, 3)
AlbumAnswers5 == Answers(AlbumCandidates, 5)
ArtistAnswers1 == Answers(ArtistCandidates, 1)
\* sp.album_tracks(album['id']) has no limit argument
\* and lists the tracks of the album, as many as the album has.
AlbumTrackAnswers(album) ==
    {answer \in Answers(AlbumTrackCandidates, MaxResults) :
        answer.raised \/ Len(answer.items) = Min(album.total_tracks, MaxResults)}

\* The record of one catalog call: the method, the query, the limit, the
\* answer, and whether the tier that made the call returned a result.
Call(api, q, limit, answer, accepted) ==
    [api |-> api, q |-> q, limit |-> limit, raised |-> answer.raised,
     items |-> answer.items, accepted |-> accepted]

create_track_result(track, low_confidence) ==
    [id |-> track.id, name |-> track.name, artist |-> track.artist,
     uri |-> track.uri, url |-> track.url, low_confidence |-> low_confidence]

\* The index of the first record that satisfies P, 0 if none does.
first_index(items, P(_)) ==
    IF \E i \in 1..Len(items) : P(items[i])
    THEN CHOOSE i \in 1..Len(items) :
            P(items[i]) /\ \A j \in 1..(i - 1) : ~P(items[j])
    ELSE 0

specific_match_track_only(track, track_name, artist_name) ==
    check_track_match(track_name, track.name)
\* "Check both artist and track name match"
specific_match(track, track_name, artist_name) ==
    /\ check_artist_match(artist_name, track.artist)
    /\ check_track_match(track_name, track.name)

specific_search_result_without_fallback(items, track_name, artist_name) ==
    LET Both(t) == specific_match(t, track_name, artist_name)
        Artist(t) == check_artist_match(artist_name, t.artist)
    IN  IF items = <<>> THEN NoneResult
        ELSE IF first_index(items, Both) # 0
             THEN create_track_result(items[first_index(items, Both)], FALSE)
        ELSE IF first_index(items, Artist) # 0
             THEN create_track_result(items[first_index(items, Artist)], TRUE)
        ELSE NoneResult
\* try_specific_search, given the items the catalog returned
specific_search_result(items, track_name, artist_name) ==
    LET Both(t) == specific_match(t, track_name, artist_name)
        Artist(t) == check_artist_match(artist_name, t.artist)
    IN  IF items = <<>> THEN NoneResult
        ELSE IF first_index(items, Both) # 0
             THEN create_track_result(items[first_index(items, Both)], FALSE)
        ELSE IF first_index(items, Artist) # 0
             THEN create_track_result(items[first_index(items, Artist)], TRUE)
        ELSE create_track_result(items[1], TRUE)

first_result_or_made_up(items) ==
    create_track_result(IF items # <<>> THEN items[1]
                        ELSE TrackObject(0, <<>>, <<>>), TRUE)
\* try_track_search and try_lenient_search, given the items the catalog returned
first_result(items) ==
    IF items # <<>> THEN create_track_result(items[1], TRUE) ELSE NoneResult

\* try_freeform_search and try_album_track_search, given the items
first_result_if_artist(items, artist_name) ==
    IF items # <<>> /\ check_artist_match(artist_name, items[1].artist)
    THEN create_track_result(items[1], TRUE)
    ELSE NoneResult

\* create_album_result, given the answer of sp.album_tracks(album['id'])
create_album_result(album, tracks, low_confidence) ==
    IF tracks.raised \/ tracks.items = <<>> THEN NoneResult
    ELSE LET r == create_track_result(tracks.items[1], low_confidence)
         IN  [k \in DOMAIN r \cup {"album_id", "album_name", "album_url", "is_album"} |->
                CASE k = "album_id" -> album.id
                  [] k = "album_name" -> album.name
                  [] k = "album_url" -> album.url
                  [] k = "is_album" -> TRUE
                  [] OTHER -> r[k]]

\* track_info.get('album', '')
album_name_of(info) == IF "album" \in DOMAIN info THEN info.album ELSE <<>>

only_track_missing(info) == "track" \notin DOMAIN info
\* if 'track' not in track_info or 'artist' not in track_info
insufficient_info(info) == "track" \notin DOMAIN info \/ "artist" \notin DOMAIN info

\* track_info.get('is_song', 'i=' in link)
is_song_of(info, link) ==
    IF "is_song" \in DOMAIN info THEN info.is_song ELSE is_substring(<<"i", "=">>, link)

InitMatch ==
    /\ sp \in BOOLEAN
    /\ apple_music_links \in SeqsUpTo({SongLink, AlbumLink}, MaxLinks)
    /\ link_index = 0
    /\ track_info = NoneResult
    /\ spotify_result = NoneResult
    /\ results = NoneResult
    /\ calls = <<>>
    /\ pc = "find_equivalents"
    /\ ChunkIdle
    /\ DedupIdle
    /\ ExtractIdle
    /\ PlaylistIdle
    /\ NamesIdle
    /\ LinkIdle
    /\ RestIdle

otherVars == <<chunkVars, dedupVars, extractVars, playlistVars, nameVars, linkVars, restVars>>

\* find_equivalents up to the loop: None without a client, else empty results.
FindEquivalents ==
    /\ pc = "find_equivalents"
    /\ IF ~sp
       THEN /\ results' = NoneResult
            /\ link_index' = link_index
            /\ pc' = "returned"
       ELSE /\ results' = [matched |-> <<>>, not_found |-> <<>>]
            /\ link_index' = 1
            /\ pc' = IF apple_music_links = <<>> THEN "returned" ELSE "get_track_info"
    /\ UNCHANGED <<sp, apple_music_links, track_info, spotify_result, calls, otherVars>>

\* track_info = AppleMusicParser.get_track_info(link), and the choice of matcher
GetTrackInfo ==
    /\ pc = "get_track_info"
    /\ \E info \in ParserOutcomes(apple_music_links[link_index]) :
          /\ track_info' = info
          /\ pc' = IF is_song_of(info, apple_music_links[link_index])
                   THEN "search_for_track" ELSE "search_for_album"
    /\ UNCHANGED <<sp, apple_music_links, link_index, spotify_result, results, calls,
                   otherVars>>

\* search_for_track up to the first tier
SearchForTrack ==
    /\ pc = "search_for_track"
    /\ IF ~sp \/ insufficient_info(track_info)
       THEN /\ spotify_result' = NoneResult
            /\ pc' = "process_result"
       ELSE /\ spotify_result' = spotify_result
            /\ pc' = "try_specific_search"
    /\ UNCHANGED <<sp, apple_music_links, link_index, track_info, results, calls,
                   otherVars>>

TrackTier_keeps_searching(q, limit, answer, result, next) ==
    LET found == IF answer.raised THEN NoneResult ELSE result
    IN  /\ calls' = Append(calls, Call("search", q, limit, answer, found # NoneResult))
        /\ IF answer.raised \/ next = "return"
           THEN /\ spotify_result' = found
                /\ pc' = "process_result"
           ELSE /\ spotify_result' = spotify_result
                /\ pc' = next
        /\ UNCHANGED <<sp, apple_music_links, link_index, track_info, results, otherVars>>

\* One tier of search_for_track: the call q with the given limit is answered,
\* the tier's rule gives its result; a result or an exception ends the search
\* (the except clause returns None), otherwise the next tier is tried.
TrackTier(q, limit, answer, result, next) ==
    LET found == IF answer.raised THEN NoneResult ELSE result
    IN  /\ calls' = Append(calls, Call("search", q, limit, answer, found # NoneResult))
        /\ IF answer.raised \/ found # NoneResult \/ next = "return"
           THEN /\ spotify_result' = found
                /\ pc' = "process_result"
           ELSE /\ spotify_result' = spotify_result
                /\ pc' = next
        /\ UNCHANGED <<sp, apple_music_links, link_index, track_info, results, otherVars>>

TrySpecificSearch ==
    /\ pc = "try_specific_search"
    /\ \E answer \in TrackAnswers5 :
          TrackTier("track:{track_name} artist:{artist_name}", 5, answer,
                    specific_search_result(answer.items, track_info.track, track_info.artist),
                    "try_track_search")

TryTrackSearch ==
    /\ pc = "try_track_search"
    /\ \E answer \in TrackAnswers3 :
          TrackTier("track:{track_name}", 3, answer, first_result(answer.items),
                    "try_freeform_search")

TryFreeformSearch ==
    /\ pc = "try_freeform_search"
    /\ \E answer \in TrackAnswers3 :
          TrackTier("{track_name} {artist_name}", 3, answer,
                    first_result_if_artist(answer.items, track_info.artist),
                    "try_album_track_search")

\* try_album_track_search: no call unless the album name is known
TryAlbumTrackSearch ==
    /\ pc = "try_album_track_search"
    /\ IF ~truthy(album_name_of(track_info))
       THEN /\ pc' = "try_lenient_search"
            /\ UNCHANGED <<matchVars, otherVars>>
       ELSE \E answer \in TrackAnswers3 :
               TrackTier("{track_name} album:{album_name}", 3, answer,
                         first_result_if_artist(answer.items, track_info.artist),
                         "try_lenient_search")

TryLenientSearch ==
    /\ pc = "try_lenient_search"
    /\ \E answer \in TrackAnswers3 :
          TrackTier("{track_name}", 3, answer, first_result(answer.items), "return")

\* search_for_album up to the first tier
SearchForAlbum ==
    /\ pc = "search_for_album"
    /\ IF ~sp \/ insufficient_info(track_info)
       THEN /\ spotify_result' = NoneResult
            /\ pc' = "process_result"
       ELSE /\ spotify_result' = spotify_result
            /\ pc' = "try_specific_album_search"
    /\ UNCHANGED <<sp, apple_music_links, link_index, track_info, results, calls,
                   otherVars>>

\* The end of one tier of search_for_album: the tier made new_calls and found
\* `found`; a result, an exception that reaches the except clause of
\* search_for_album, or the end of the last tier returns to find_equivalents.
AlbumTier(new_calls, found, returns, next) ==
    /\ calls' = calls \o new_calls
    /\ IF returns \/ found # NoneResult
       THEN /\ spotify_result' = found
            /\ pc' = "process_result"
       ELSE /\ spotify_result' = spotify_result
            /\ pc' = next
    /\ UNCHANGED <<sp, apple_music_links, link_index, track_info, results, otherVars>>

\* A tier that searches albums and builds its result from the first one
\* (try_specific_album_search, try_freeform_album_search).
AlbumSearchTier(q, low_confidence(_), next) ==
    \E answer \in AlbumAnswers3 :
        IF answer.raised \/ answer.items = <<>>
        THEN AlbumTier(<<Call("search", q, 3, answer, FALSE)>>, NoneResult,
                       answer.raised, next)
        ELSE \E tracks \in AlbumTrackAnswers(answer.items[1]) :
                LET album == answer.items[1]
                    found == create_album_result(album, tracks, low_confidence(album))
                IN  AlbumTier(<<Call("search", q, 3, answer, found # NoneResult),
                                Call("album_tracks", "album['id']", 0, tracks,
                                     found # NoneResult)>>,
                              found, FALSE, next)

specific_album_never_low(album, artist_name) == FALSE
\* "Artist mismatch": the first album is returned with the low-confidence flag
specific_album_low_confidence(album, artist_name) ==
    ~check_artist_match(artist_name, album.artist)

TrySpecificAlbumSearch ==
    /\ pc = "try_specific_album_search"
    /\ LET Low(album) == specific_album_low_confidence(album, track_info.artist)
       IN  AlbumSearchTier("album:{album_name} artist:{artist_name}", Low,
                           "try_freeform_album_search")

TryFreeformAlbumSearch ==
    /\ pc = "try_freeform_album_search"
    /\ LET Low(album) == TRUE
       IN  AlbumSearchTier("{album_name} {artist_name}", Low, "try_artist_only_search")

\* try_artist_only_search: its own except clause turns an exception of the
\* artist search or of artist_albums into None.
TryArtistOnlySearch ==
    /\ pc = "try_artist_only_search"
    /\ \E artists \in ArtistAnswers1 :
          IF artists.raised \/ artists.items = <<>>
          THEN AlbumTier(<<Call("search", "artist:{artist_name}", 1, artists, FALSE)>>,
                         NoneResult, TRUE, "return")
          ELSE \E albums \in AlbumAnswers5 :
                  IF albums.raised \/ albums.items = <<>>
                  THEN AlbumTier(<<Call("search", "artist:{artist_name}", 1, artists, FALSE),
                                   Call("artist_albums", "artist['id']", 5, albums, FALSE)>>,
                                 NoneResult, TRUE, "return")
                  ELSE \E tracks \in AlbumTrackAnswers(albums.items[1]) :
                          LET found == create_album_result(albums.items[1], tracks, TRUE)
                              ok == found # NoneResult
                          IN  AlbumTier(
                                <<Call("search", "artist:{artist_name}", 1, artists, ok),
                                  Call("artist_albums", "artist['id']", 5, albums, ok),
                                  Call("album_tracks", "album['id']", 0, tracks, ok)>>,
                                found, TRUE, "return")

\* spotify_result.get('is_album', False)
is_album_result(result) == "is_album" \in DOMAIN result /\ result.is_album

\* The dict appended to results['matched'].
matched_entry(link, result) ==
    [apple_music_link |-> link,
     spotify_url |-> result.url,
     type |-> IF is_album_result(result) THEN "album" ELSE "song"]

not_found_dropped(not_found, link, info) == not_found
\* results['not_found'].append({...})
append_not_found(not_found, link, info) ==
    Append(not_found, [apple_music_link |-> link, apple_music_info |-> info])

\* "Process the search result", and the step to the next link
ProcessResult ==
    /\ pc = "process_result"
    /\ results' =
          IF spotify_result # NoneResult
          THEN [results EXCEPT !.matched =
                    Append(@, matched_entry(apple_music_links[link_index], spotify_result))]
          ELSE [results EXCEPT !.not_found =
                    append_not_found(@, apple_music_links[link_index], track_info)]
    /\ link_index' = link_index + 1
    /\ calls' = <<>>
    /\ pc' = IF link_index = Len(apple_music_links) THEN "returned" ELSE "get_track_info"
    /\ UNCHANGED <<sp, apple_music_links, track_info, spotify_result, otherVars>>

\* Identifiers of the Spotify links of the request: extract_spotify_ids
\* returns each category without duplicates.  Track 1 is also a candidate of
\* the catalog searches, track 7 is not.
SpotifyLinkIds ==
    {[tracks |-> t, albums |-> a] : t \in {<<>>, <<1>>, <<7, 1>>}, a \in {<<>>, <<11>>}}

\* spotify_url.split('/')[-1].split('?')[0]
item_id_of(spotify_url) == spotify_url[Len(spotify_url)]

RECURSIVE extract_ids_from_matches(_, _, _)
\* The track_ids and album_ids lists after the matches from position i on.
extract_ids_from_matches(matches, i, ids) ==
    IF i > Len(matches) THEN ids
    ELSE LET item_id == item_id_of(matches[i].spotify_url)
         IN  extract_ids_from_matches(matches, i + 1,
                IF matches[i].type = "song"
                THEN [ids EXCEPT !.tracks = Append(@, item_id)]
                ELSE IF matches[i].type = "album"
                THEN [ids EXCEPT !.albums = Append(@, item_id)]
                ELSE ids)

\* get_apple_music_ids, given the return value of find_equivalents
get_apple_music_ids(links, matches) ==
    IF links = <<>> \/ matches = NoneResult
    THEN [tracks |-> <<>>, albums |-> <<>>]
    ELSE extract_ids_from_matches(matches.matched, 1, [tracks |-> <<>>, albums |-> <<>>])

prepare_spotify_data(spotify_ids, additional) ==
    [tracks |-> spotify_ids.tracks \o additional.tracks,
     albums |-> spotify_ids.albums \o additional.albums]

\* music_processor.create_playlist up to the call of create_spotify_playlist
CreatePlaylist ==
    /\ pc = "returned"
    /\ \E spotify_ids \in SpotifyLinkIds :
          spotify_data' = prepare_spotify_data(spotify_ids,
                              get_apple_music_ids(apple_music_links, results))
    /\ pc' = "create_spotify_playlist"
    /\ UNCHANGED <<max_per_playlist, chunks, dedupVars, extractVars, matchVars,
                   playlistVars, nameVars, linkVars, restVars>>

\* parts[-1].split("?")[0] of spotify_url.split("/")
spotify_id_of(spotify_url) == spotify_url[Len(spotify_url)]

RECURSIVE matches_loop(_, _, _)
\* "Process each match", from position i on
matches_loop(matched, i, ids) ==
    IF i > Len(matched) THEN ids
    ELSE LET spotify_id == spotify_id_of(matched[i].spotify_url)
         IN  matches_loop(matched, i + 1,
                IF matched[i].type = "song"
                THEN [ids EXCEPT !.tracks = Append(@, spotify_id)]
                ELSE IF matched[i].type = "album"
                THEN [ids EXCEPT !.albums = Append(@, spotify_id)]
                ELSE ids)

\* create_matched_playlist.extract_spotify_ids_from_matches, given the
\* content of the matches file
extract_spotify_ids_from_matches(matches_data) ==
    matches_loop(matches_data.matched, 1, [tracks |-> <<>>, albums |-> <<>>])

\* AppleToSpotifyConverter: the results of find_equivalents are written to
\* the matches file.
SaveResults ==
    /\ pc = "returned"
    /\ results # NoneResult
    /\ matches_file' = results
    /\ pc' = "results_saved"
    /\ UNCHANGED <<chunkVars, dedupVars, extractVars, matchVars, playlistVars, nameVars,
                   linkVars, appleIdVars, fileVars, music_links_file, removed_invalid_ids,
                   match_spotify_data, combined_data, chunk_index, created_playlists,
                   invalid_by_chunk, file_by_chunk>>

\* match_spotify_data = extract_spotify_ids_from_matches(APPLE_TO_SPOTIFY_MATCHES)
ExtractSpotifyIdsFromMatches ==
    /\ pc = "results_saved"
    /\ match_spotify_data' = extract_spotify_ids_from_matches(matches_file)
    /\ pc' = "matches_extracted"
    /\ UNCHANGED <<chunkVars, dedupVars, extractVars, matchVars, playlistVars, nameVars,
                   linkVars, appleIdVars, fileVars, matches_file, music_links_file,
                   removed_invalid_ids, combined_data, chunk_index, created_playlists,
                   invalid_by_chunk, file_by_chunk>>

Next ==
    \/ FindEquivalents
    \/ GetTrackInfo
    \/ SearchForTrack
    \/ TrySpecificSearch
    \/ TryTrackSearch
    \/ TryFreeformSearch
    \/ TryAlbumTrackSearch
    \/ TryLenientSearch
    \/ SearchForAlbum
    \/ TrySpecificAlbumSearch
    \/ TryFreeformAlbumSearch
    \/ TryArtistOnlySearch
    \/ ProcessResult
    \/ CreatePlaylist
    \/ SaveResults
    \/ ExtractSpotifyIdsFromMatches

Spec == InitMatch /\ [][Next]_vars

\* The link being processed.
CurrentLink == apple_music_links[link_index]

\* The search for the link has returned to find_equivalents.
SearchReturned == sp /\ pc = "process_result"

\* The link has been processed and its entry appended.
LinkProcessed == sp /\ pc \in {"get_track_info", "returned"} /\ link_index > 1

RECURSIVE LinksWhere(_, _, _, _)
\* The links at the indexes i..Len(links) that f maps to b, in order.
LinksWhere(links, f, b, i) ==
    IF i > Len(links) THEN <<>>
    ELSE IF f[i] = b THEN <<links[i]>> \o LinksWhere(links, f, b, i + 1)
    ELSE LinksWhere(links, f, b, i + 1)

EntryLinks(entries) == [i \in 1..Len(entries) |-> entries[i].apple_music_link]

C5_LowConfidenceKept ==
    (LinkProcessed /\ spotify_result # NoneResult /\ spotify_result.low_confidence) =>
        LET entry == results.matched[Len(results.matched)]
        IN  /\ "low_confidence" \in DOMAIN entry
            /\ entry.low_confidence

\* The queries of search_for_track in tier order, each with its limit; the
\* album query is made only when the album name is known.
TrackQueries(info) ==
    <<<<"track:{track_name} artist:{artist_name}", 5>>, <<"track:{track_name}", 3>>,
      <<"{track_name} {artist_name}", 3>>>>
    \o (IF truthy(album_name_of(info))
        THEN <<<<"{track_name} album:{album_name}", 3>>>> ELSE <<>>)
    \o <<<<"{track_name}", 3>>>>

TrackTierSteps ==
    {"try_specific_search", "try_track_search", "try_freeform_search",
     "try_album_track_search", "try_lenient_search"}

\* A track with title and artist is being searched, or its search has returned.
InTrackSearch ==
    \/ pc \in TrackTierSteps
    \/ /\ SearchReturned
       /\ is_song_of(track_info, CurrentLink)
       /\ "track" \in DOMAIN track_info
       /\ "artist" \in DOMAIN track_info

\* The calls so far are the first queries of the tier order, and no call was
\* made after a tier accepted a candidate.
TiersInOrder ==
    /\ Len(calls) <= Len(TrackQueries(track_info))
    /\ \A i \in 1..Len(calls) :
          /\ calls[i].api = "search"
          /\ <<calls[i].q, calls[i].limit>> = TrackQueries(track_info)[i]
    /\ \A i \in 1..(Len(calls) - 1) : ~calls[i].accepted
    /\ pc \in TrackTierSteps => \A i \in 1..Len(calls) : ~calls[i].accepted
    /\ (pc = "process_result" /\ spotify_result # NoneResult) =>
          calls # <<>> /\ calls[Len(calls)].accepted

AllTiersTried ==
    /\ Len(calls) = Len(TrackQueries(track_info))
    /\ \A i \in 1..Len(calls) : ~calls[i].accepted

\* C6 as stated: the queries are issued in tier order, none after an
\* acceptance, and the result is not-found only when every tier was tried
\* without acceptance.
C6_NotFoundOnlyAfterAllTiers ==
    InTrackSearch =>
        /\ TiersInOrder
        /\ (pc = "process_result" /\ spotify_result = NoneResult) => AllTiersTried

\* C6 as amended: the queries are issued in tier order, none after an
\* acceptance, and the result is not-found only when every tier was tried
\* without acceptance or a catalog call raised, which ends the search.
C6_TiersInOrder ==
    InTrackSearch =>
        /\ TiersInOrder
        /\ (pc = "process_result" /\ spotify_result = NoneResult) =>
              \/ AllTiersTried
              \/ calls # <<>> /\ calls[Len(calls)].raised

\* A track with a known album for which the first four tiers accepted nothing
\* and the fifth, the freeform query of the name alone, did.
C6_Witness ==
    /\ SearchReturned
    /\ Len(calls) = 5
    /\ calls[4].q = "{track_name} album:{album_name}"
    /\ calls[4].items # <<>>
    /\ spotify_result # NoneResult

\* C7: a result of search_for_track with low_confidence = false is the first
\* candidate of the field-qualified query for which check_track_match and
\* check_artist_match both hold (so a result accepted in any other way has
\* low_confidence = true).
C7_HighOnlyForFirstFullMatch ==
    (/\ SearchReturned
     /\ is_song_of(track_info, CurrentLink)
     /\ spotify_result # NoneResult
     /\ ~spotify_result.low_confidence)
    => /\ Len(calls) = 1
       /\ calls[1].q = "track:{track_name} artist:{artist_name}"
       /\ \E i \in 1..Len(calls[1].items) :
             LET Full(t) == /\ check_track_match(track_info.track, t.name)
                            /\ check_artist_match(track_info.artist, t.artist)
             IN  /\ Full(calls[1].items[i])
                 /\ \A j \in 1..(i - 1) : ~Full(calls[1].items[j])
                 /\ spotify_result = create_track_result(calls[1].items[i], FALSE)

\* A High result that is the second candidate of the field-qualified query:
\* the first one matched the artist only.
C7_Witness ==
    /\ SearchReturned
    /\ is_song_of(track_info, CurrentLink)
    /\ spotify_result # NoneResult
    /\ ~spotify_result.low_confidence
    /\ Len(calls[1].items) = 2
    /\ spotify_result.id = calls[1].items[2].id
    /\ spotify_result.id # calls[1].items[1].id
    /\ ~check_track_match(track_info.track, calls[1].items[1].name)

\* C8: for an item without the title field or without the artist field
\* search_for_track and search_for_album make no catalog call and return
\* not-found.
C8_NoCallWithoutTitleOrArtist ==
    (/\ sp
     /\ pc \notin {"find_equivalents", "get_track_info", "returned",
                    "create_spotify_playlist", "results_saved", "matches_extracted"}
     /\ ("track" \notin DOMAIN track_info \/ "artist" \notin DOMAIN track_info))
    => /\ pc \in {"search_for_track", "search_for_album", "process_result"}
       /\ calls = <<>>
       /\ pc = "process_result" => spotify_result = NoneResult

\* A page that gave the title but no artist: the search returned not-found
\* without a call.
C8_Witness ==
    /\ SearchReturned
    /\ "track" \in DOMAIN track_info
    /\ "artist" \notin DOMAIN track_info
    /\ calls = <<>>
    /\ spotify_result = NoneResult

AlbumListCall(c) ==
    \/ c.api = "artist_albums"
    \/ c.api = "search" /\ c.q \in {"album:{album_name} artist:{artist_name}",
                                     "{album_name} {artist_name}"}

\* C9: a result of search_for_track is an element of a list that the catalog
\* returned for the item; a result of search_for_album is built from an album
\* of a returned album list and from a track of a returned track listing. So
\* there is no result when every call returned an empty list.
C9_ResultFromReturnedList ==
    (SearchReturned /\ spotify_result # NoneResult) =>
        IF is_album_result(spotify_result)
        THEN /\ \E i \in 1..Len(calls) :
                  /\ AlbumListCall(calls[i])
                  /\ \E a \in Range(calls[i].items) :
                        /\ a.id = spotify_result.album_id
                        /\ a.name = spotify_result.album_name
                        /\ a.url = spotify_result.album_url
             /\ \E j \in 1..Len(calls) :
                  /\ calls[j].api = "album_tracks"
                  /\ \E t \in Range(calls[j].items) :
                        /\ t.id = spotify_result.id
                        /\ t.url = spotify_result.url
        ELSE \E i \in 1..Len(calls) :
                \E t \in Range(calls[i].items) :
                    spotify_result = create_track_result(t, spotify_result.low_confidence)

\* A result found after an earlier call for the item returned an empty list.
C9_Witness ==
    /\ SearchReturned
    /\ spotify_result # NoneResult
    /\ Len(calls) >= 2
    /\ ~calls[1].raised
    /\ calls[1].items = <<>>

\* An album with title and artist is being searched, or its search has returned.
InAlbumSearch ==
    \/ pc \in {"try_specific_album_search", "try_freeform_album_search",
               "try_artist_only_search"}
    \/ /\ SearchReturned
       /\ ~is_song_of(track_info, CurrentLink)
       /\ "track" \in DOMAIN track_info
       /\ "artist" \in DOMAIN track_info

\* The field-qualified album query was made and returned at least one album.
SpecificAlbumQueryAnswered ==
    /\ calls # <<>>
    /\ calls[1].q = "album:{album_name} artist:{artist_name}"
    /\ ~calls[1].raised
    /\ calls[1].items # <<>>

\* The result is built from the first album of the field-qualified query, with
\* High confidence exactly if its artist matches, and no further query was made.
FirstAlbumReturned ==
    /\ pc = "process_result"
    /\ Len(calls) = 2
    /\ spotify_result # NoneResult
    /\ is_album_result(spotify_result)
    /\ spotify_result.album_id = calls[1].items[1].id
    /\ spotify_result.album_name = calls[1].items[1].name
    /\ spotify_result.album_url = calls[1].items[1].url
    /\ spotify_result.low_confidence =
          ~check_artist_match(track_info.artist, calls[1].items[1].artist)

\* C20 as stated: when the field-qualified query returns at least one album
\* whose track listing is non-empty, search_for_album returns the first album
\* of that result list, High if its artist matches and Low otherwise, and no
\* later tier is queried.
C20_FirstAlbumOfSpecificQuery ==
    (/\ InAlbumSearch
     /\ SpecificAlbumQueryAnswered
     /\ \E a \in Range(calls[1].items) : a.total_tracks > 0)
    => FirstAlbumReturned

\* C20 as amended: when the field-qualified query returns at least one album
\* and the fetch of the first album's track listing succeeds with a non-empty
\* listing, search_for_album returns that first album, High if its artist
\* matches and Low otherwise, and no later tier is queried.
C20_FirstAlbumWithListing ==
    (/\ InAlbumSearch
     /\ SpecificAlbumQueryAnswered
     /\ Len(calls) >= 2
     /\ calls[2].api = "album_tracks"
     /\ ~calls[2].raised
     /\ calls[2].items # <<>>)
    => FirstAlbumReturned

\* The field-qualified query returned two albums, the first by another artist:
\* it is returned with the low-confidence flag.
C20_Witness ==
    /\ InAlbumSearch
    /\ SpecificAlbumQueryAnswered
    /\ Len(calls[1].items) = 2
    /\ ~check_artist_match(track_info.artist, calls[1].items[1].artist)
    /\ check_artist_match(track_info.artist, calls[1].items[2].artist)
    /\ FirstAlbumReturned
    /\ spotify_result.low_confidence

\* The search of an album item has returned to find_equivalents.
AlbumSearchReturned == pc = "process_result" /\ InAlbumSearch

\* Some tier fetched the track listing of the album it took and got none.
EmptyListingFetched ==
    \E i \in 1..Len(calls) :
        calls[i].api = "album_tracks" /\ ~calls[i].raised /\ calls[i].items = <<>>

\* C21: when the track listing of the album taken at a tier of search_for_album
\* is empty, the outcome of the search for the item is not-found; and an album
\* result that is returned carries the identifier of the first track of the
\* listing of that same album.
C21_EmptyListingIsNotFound ==
    AlbumSearchReturned =>
        /\ EmptyListingFetched => spotify_result = NoneResult
        /\ spotify_result # NoneResult =>
              /\ Len(calls) >= 2
              /\ calls[Len(calls)].api = "album_tracks"
              /\ calls[Len(calls)].items # <<>>
              /\ spotify_result.id = calls[Len(calls)].items[1].id
              /\ spotify_result.album_id = calls[Len(calls) - 1].items[1].id

\* C26: for a link matched as an album, the ID that
\* extract_spotify_ids_from_matches places in 'albums' is the album_id of the
\* search result, not the ID of the album's first track (stated of the last
\* link of the batch, whose search result is still at hand).
C26_AlbumIdInAlbums ==
    (/\ pc = "matches_extracted"
     /\ apple_music_links # <<>>
     /\ spotify_result # NoneResult
     /\ is_album_result(spotify_result))
    => /\ match_spotify_data.albums # <<>>
       /\ match_spotify_data.albums[Len(match_spotify_data.albums)] = spotify_result.album_id

\* The field-qualified track query was made and returned a candidate.
SpecificTrackQueryAnswered ==
    /\ calls # <<>>
    /\ ~calls[1].raised
    /\ calls[1].items # <<>>

\* C29: when the field-qualified track query returns at least one candidate,
\* search_for_track returns one of those candidates after that one call; the
\* later queries are issued only when the field-qualified query returned an
\* empty list, and at most five calls are made for an item.
C29_SpecificCandidateEndsSearch ==
    InTrackSearch =>
        /\ SpecificTrackQueryAnswered =>
              /\ pc = "process_result"
              /\ Len(calls) = 1
              /\ spotify_result # NoneResult
              /\ \E i \in 1..Len(calls[1].items) :
                    \E low \in BOOLEAN :
                        spotify_result = create_track_result(calls[1].items[i], low)
        /\ (Len(calls) >= 2 \/ (pc \in TrackTierSteps /\ pc # "try_specific_search")) =>
              calls # <<>> /\ ~calls[1].raised /\ calls[1].items = <<>>
        /\ Len(calls) <= 5

\* The field-qualified query returned candidates of which none has the
\* source's artist: the first one is returned, after the one call.
C29_Witness ==
    /\ InTrackSearch
    /\ SpecificTrackQueryAnswered
    /\ \A i \in 1..Len(calls[1].items) :
          ~check_artist_match(track_info.artist, calls[1].items[i].artist)
    /\ pc = "process_result"
    /\ Len(calls) = 1
    /\ spotify_result = create_track_result(calls[1].items[1], TRUE)

NoDuplicates(ids) == \A i, j \in 1..Len(ids) : i # j => ids[i] # ids[j]

\* C13: the track list and the album list that music_processor.create_playlist
\* hands to create_spotify_playlist contain no identifier twice.
C13_NoIdTwiceInCategory ==
    pc = "create_spotify_playlist" =>
        /\ NoDuplicates(spotify_data.tracks)
        /\ NoDuplicates(spotify_data.albums)

(***************************************************************************)
(* Playlist creation: spotify/playlist_creator.create_spotify_playlist     *)
(* (spotify_playlist_creator.py holds the same function).                  *)
(*                                                                         *)
(* Every call of the catalog client is a step of its own that succeeds or  *)
(* raises.  str(e) of an error is the sequence of its parts.               *)
(***************************************************************************)

\* Bound on the number of tracks that the catalog lists for one album.
MaxAlbumSongs == 2

\* "Spotify limits to 100 tracks per request"
batch_size == 100

PlaylistId == [id |-> "playlist"]

\* The invalid-album-IDs file may be left over from an earlier call.
InvalidFiles == {NoneResult, [invalid_album_ids |-> <<999>>]}

\* f"spotify:track:{track_id}" for every track_id
track_uris(track_ids) == [i \in 1..Len(track_ids) |-> <<"spotify", "track", track_ids[i]>>]

\* range(0, len(uris), batch_size)
num_batches(uris) == (Len(uris) + batch_size - 1) \div batch_size

batch_first_again(uris, k) == SubSeq(uris, 1, Min(batch_size, Len(uris)))
\* uris[i:i + batch_size] of the k-th pass of the loop, i = (k - 1) * batch_size
batch(uris, k) ==
    SubSeq(uris, (k - 1) * batch_size + 1, Min(k * batch_size, Len(uris)))

\* The errors with which the catalog rejects an album ID: unknown, malformed.
AlbumErrors == {<<"http status: ", "404">>, <<"http status: ", "400">>}

\* What sp.album_tracks(album_id) can do: list the album's tracks, or raise.
AlbumTracksOutcomes(album_id) ==
    {[album_id |-> album_id, raised |-> FALSE,
      items |-> [j \in 1..k |-> [uri |-> <<"spotify", "track", 10 * album_id + j>>]]] :
        k \in 0..MaxAlbumSongs}
    \cup {[album_id |-> album_id, raised |-> TRUE, error |-> e] : e \in AlbumErrors}

\* "404" in str(e)
has_404(error) == \E i \in 1..Len(error) : error[i] = "404"

\* Where the function goes on after the playlist was created, after the last
\* batch of direct tracks, after the last album, after the last album batch.
after_tracks(data) == IF data.albums # <<>> THEN "album_tracks" ELSE "return"
after_create(data) == IF data.tracks # <<>> THEN "add_tracks" ELSE after_tracks(data)
after_album_batches(invalid) == IF invalid # <<>> THEN "save_invalid" ELSE "return"
after_albums(tracks, invalid) ==
    IF tracks # <<>> THEN "add_album_tracks" ELSE after_album_batches(invalid)

nonPlaylistVars == <<chunkVars, dedupVars, extractVars, matchVars, nameVars, linkVars, restVars>>

\* The numbers of direct tracks: a few, and a few more than one batch holds.
TrackCounts == (0..MaxTracks) \cup (batch_size..(batch_size + MaxTracks))

InitPlaylist ==
    /\ spotify_data \in {[tracks |-> TrackList(n), albums |-> AlbumList(m)] :
                            n \in TrackCounts, m \in 0..MaxAlbums}
    /\ max_per_playlist = 0
    /\ chunks = <<>>
    /\ playlist_id = NoneResult
    /\ add_calls = <<>>
    /\ album_calls = <<>>
    /\ album_tracks = <<>>
    /\ invalid_album_ids = <<>>
    /\ invalid_file \in InvalidFiles
    /\ playlist_return = NoneResult
    /\ pc = "authenticate"
    /\ DedupIdle
    /\ ExtractIdle
    /\ MatchIdle
    /\ NamesIdle
    /\ LinkIdle
    /\ RestIdle

\* sp = spotipy.Spotify(auth_manager=...), or return None
Authenticate ==
    /\ pc = "authenticate"
    /\ \E raised \in BOOLEAN :
          pc' = IF raised THEN "playlist_returned" ELSE "current_user"
    /\ UNCHANGED <<playlistVars, nonPlaylistVars>>

\* current_user = sp.current_user(), or return None
CurrentUser ==
    /\ pc = "current_user"
    /\ \E raised \in BOOLEAN :
          pc' = IF raised THEN "playlist_returned" ELSE "user_playlist_create"
    /\ UNCHANGED <<playlistVars, nonPlaylistVars>>

\* playlist = sp.user_playlist_create(...), or return None
UserPlaylistCreate ==
    /\ pc = "user_playlist_create"
    /\ \E raised \in BOOLEAN :
          IF raised
          THEN pc' = "playlist_returned" /\ UNCHANGED playlist_id
          ELSE pc' = after_create(spotify_data) /\ playlist_id' = PlaylistId
    /\ UNCHANGED <<add_calls, album_calls, album_tracks, invalid_album_ids,
                   invalid_file, playlist_return, nonPlaylistVars>>

\* One pass of the loop that adds the direct tracks in batches.
AddTracks ==
    /\ pc = "add_tracks"
    /\ LET uris == track_uris(spotify_data.tracks)
           k == Len(add_calls) + 1
       IN  /\ \E raised \in BOOLEAN :
                 add_calls' = Append(add_calls, [batch |-> batch(uris, k), raised |-> raised])
           /\ pc' = IF k = num_batches(uris) THEN after_tracks(spotify_data) ELSE pc
    /\ UNCHANGED <<playlist_id, album_calls, album_tracks, invalid_album_ids,
                   invalid_file, playlist_return, nonPlaylistVars>>

\* One pass of "for album_id in album_ids".
AlbumTracks ==
    /\ pc = "album_tracks"
    /\ LET i == Len(album_calls) + 1
       IN  \E outcome \in AlbumTracksOutcomes(spotify_data.albums[i]) :
              /\ album_calls' = Append(album_calls, outcome)
              /\ album_tracks' =
                    IF outcome.raised THEN album_tracks
                    ELSE album_tracks \o [j \in 1..Len(outcome.items) |-> outcome.items[j].uri]
              /\ invalid_album_ids' =
                    IF outcome.raised /\ has_404(outcome.error)
                    THEN Append(invalid_album_ids, outcome.album_id)
                    ELSE invalid_album_ids
              /\ pc' = IF i = Len(spotify_data.albums)
                       THEN after_albums(album_tracks', invalid_album_ids')
                       ELSE pc
    /\ UNCHANGED <<playlist_id, add_calls, invalid_file, playlist_return, nonPlaylistVars>>

\* One pass of the loop that adds the album tracks in batches.
AddAlbumTracks ==
    /\ pc = "add_album_tracks"
    /\ LET k == Len(add_calls) - num_batches(track_uris(spotify_data.tracks)) + 1
       IN  /\ \E raised \in BOOLEAN :
                 add_calls' = Append(add_calls,
                                     [batch |-> batch(album_tracks, k), raised |-> raised])
           /\ pc' = IF k = num_batches(album_tracks)
                    THEN after_album_batches(invalid_album_ids) ELSE pc
    /\ UNCHANGED <<playlist_id, album_calls, album_tracks, invalid_album_ids,
                   invalid_file, playlist_return, nonPlaylistVars>>

\* file_manager.write_json(INVALID_ALBUM_IDS, invalid_data), which may raise
SaveInvalidAlbumIds ==
    /\ pc = "save_invalid"
    /\ \E raised \in BOOLEAN :
          invalid_file' = IF raised THEN invalid_file
                          ELSE [invalid_album_ids |-> invalid_album_ids]
    /\ pc' = "return"
    /\ UNCHANGED <<playlist_id, add_calls, album_calls, album_tracks,
                   invalid_album_ids, playlist_return, nonPlaylistVars>>

\* return playlist_id
ReturnPlaylistId ==
    /\ pc = "return"
    /\ playlist_return' = playlist_id
    /\ pc' = "playlist_returned"
    /\ UNCHANGED <<playlist_id, add_calls, album_calls, album_tracks,
                   invalid_album_ids, invalid_file, nonPlaylistVars>>

NextPlaylist ==
    \/ Authenticate
    \/ CurrentUser
    \/ UserPlaylistCreate
    \/ AddTracks
    \/ AlbumTracks
    \/ AddAlbumTracks
    \/ SaveInvalidAlbumIds
    \/ ReturnPlaylistId

SpecPlaylist == InitPlaylist /\ [][NextPlaylist]_vars

\* The URIs submitted by the playlist_add_items calls.
SubmittedUris == UNION {Range(add_calls[k].batch) : k \in 1..Len(add_calls)}

\* C14: when create_spotify_playlist has created the playlist and returns,
\* every album ID whose album_tracks call raised is in the list of invalid
\* album IDs of that call, the direct tracks and the tracks of the albums that
\* were listed have been submitted, and the playlist ID is returned.
C14_RejectedAlbumsRecorded ==
    (pc = "playlist_returned" /\ playlist_id # NoneResult) =>
        /\ \A i \in 1..Len(album_calls) :
              album_calls[i].raised =>
                  album_calls[i].album_id \in Range(invalid_album_ids)
        /\ Range(track_uris(spotify_data.tracks)) \subseteq SubmittedUris
        /\ \A i \in 1..Len(album_calls) :
              ~album_calls[i].raised =>
                  \A j \in 1..Len(album_calls[i].items) :
                      album_calls[i].items[j].uri \in SubmittedUris
        /\ playlist_return = playlist_id

RECURSIVE ConcatBatches(_, _, _)
\* The batches of the add calls i..j, one after the other.
ConcatBatches(add, i, j) ==
    IF i > j THEN <<>> ELSE add[i].batch \o ConcatBatches(add, i + 1, j)

\* C30: no add call is made unless authentication, user lookup and playlist
\* creation succeeded, and None is returned otherwise; else the track IDs are
\* submitted in input order in batches of at most 100, each ID in exactly one
\* batch, all of them before the batches of album tracks, whether or not a
\* batch failed, and the playlist ID is returned.
C30_BatchesInOrder ==
    /\ add_calls # <<>> => playlist_id # NoneResult
    /\ (pc = "playlist_returned" /\ playlist_id = NoneResult) =>
          add_calls = <<>> /\ playlist_return = NoneResult
    /\ (pc = "playlist_returned" /\ playlist_id # NoneResult) =>
          LET n == CeilDiv(Len(spotify_data.tracks), 100)
          IN  /\ Len(add_calls) >= n
              /\ ConcatBatches(add_calls, 1, n) = track_uris(spotify_data.tracks)
              /\ ConcatBatches(add_calls, n + 1, Len(add_calls)) = album_tracks
              /\ \A k \in 1..Len(add_calls) :
                    add_calls[k].batch # <<>> /\ Len(add_calls[k].batch) <= 100
              /\ playlist_return = playlist_id

\* More tracks than one batch holds and an album: the first batch failed, the
\* second batch and the batch of the album's tracks were submitted, and the
\* playlist ID is returned.
C30_Witness ==
    /\ pc = "playlist_returned"
    /\ playlist_id # NoneResult
    /\ Len(spotify_data.tracks) > 100
    /\ Len(add_calls) = 3
    /\ add_calls[1].raised
    /\ Len(add_calls[1].batch) = 100
    /\ add_calls[2].batch = SubSeq(track_uris(spotify_data.tracks), 101, Len(spotify_data.tracks))
    /\ add_calls[3].batch = album_tracks
    /\ playlist_return = playlist_id

(***************************************************************************)
(* Apple Music identifiers: playlist_creator.extract_apple_music_ids       *)
(***************************************************************************)
MaxAppleLinks == 2
MaxLinkPieces == 3

\* The index of the last character of the longest run of characters of S that
\* starts at p (p - 1 if there is none): where a greedy S+ or S* stops.
run_end(link, p, S) ==
    IF \E i \in p..Len(link) : link[i] \notin S
    THEN (CHOOSE i \in p..Len(link) :
            link[i] \notin S /\ \A j \in p..(i - 1) : link[j] \in S) - 1
    ELSE Len(link)

\* The index where the leftmost match of word followed by one or more
\* characters of S starts, 0 if there is no match.
search_word_then(link, word, S) ==
    LET starts(k) == /\ has_at(link, k, word)
                     /\ k + Len(word) <= Len(link)
                     /\ link[k + Len(word)] \in S
    IN  IF \E k \in 1..Len(link) : starts(k)
        THEN CHOOSE k \in 1..Len(link) : starts(k) /\ \A j \in 1..(k - 1) : ~starts(j)
        ELSE 0

\* re.search(r'i=(\d+)', link): group 1, "" if there is no match
track_id_match(link) ==
    LET k == search_word_then(link, <<"i", "=">>, Digits)
    IN  IF k = 0 THEN <<>> ELSE SubSeq(link, k + 2, run_end(link, k + 2, Digits))

\* [a-zA-Z0-9-]
playlist_id_chars == Range(UpperCase) \cup Range(LowerCase) \cup Digits \cup {"-"}

\* re.search(r'(pl\.[a-zA-Z0-9-]+)', link): group 1, "" if there is no match
playlist_id_match(link) ==
    LET k == search_word_then(link, <<"p", "l", ".">>, playlist_id_chars)
    IN  IF k = 0 THEN <<>> ELSE SubSeq(link, k, run_end(link, k + 3, playlist_id_chars))

\* urlparse(link).path of a link written from its first '/' after the host on:
\* the path ends before the query or the fragment.
url_path(link) ==
    LET q == first_in(link, 1, {"?", "#"})
    IN  IF q = 0 THEN link ELSE SubSeq(link, 1, q - 1)

\* part.isdigit()
isdigit(part) == part # <<>> /\ \A i \in 1..Len(part) : part[i] \in Digits

\* "Find a numeric ID in the path": the first all-digit part, "" if none
album_id_part(link) ==
    LET path_parts == split_on(url_path(link), "/", 1)
    IN  IF \E i \in 1..Len(path_parts) : isdigit(path_parts[i])
        THEN path_parts[CHOOSE i \in 1..Len(path_parts) :
                /\ isdigit(path_parts[i])
                /\ \A j \in 1..(i - 1) : ~isdigit(path_parts[j])]
        ELSE <<>>

\* The branch a link takes in the loop and the ID it appends there ("" if it
\* appends none).
link_id(link) ==
    IF is_substring(<<"i", "=">>, link)
    THEN [category |-> "tracks", id |-> track_id_match(link)]
    ELSE IF is_substring(<<"p", "l", ".">>, link)
    THEN [category |-> "playlists", id |-> playlist_id_match(link)]
    ELSE [category |-> "albums", id |-> album_id_part(link)]

\* list(set(...)) of the IDs appended to one category: a set, its order is
\* not determined.
category_ids(link_list, category) ==
    {link_id(link_list[i]).id : i \in {j \in 1..Len(link_list) :
        link_id(link_list[j]).category = category /\ link_id(link_list[j]).id # <<>>}}

extract_apple_music_ids(link_list) ==
    [tracks |-> category_ids(link_list, "tracks"),
     albums |-> category_ids(link_list, "albums"),
     playlists |-> category_ids(link_list, "playlists")]

\* The pieces of which the links are made, after "https://music.apple.com".
LinkPieces == {<<"/">>, <<"?">>, <<"i", "=">>, <<"7">>, <<"p", "l", ".">>}
AppleLinks == {<<"/">> \o Flatten(pieces) : pieces \in SeqsUpTo(LinkPieces, MaxLinkPieces)}

InitAppleIds ==
    /\ apple_links \in SeqsUpTo(AppleLinks, MaxAppleLinks)
    /\ apple_ids = NoneResult
    /\ pc = "extract_apple_music_ids"
    /\ FileIdle
    /\ MainIdle
    /\ ChunkIdle
    /\ DedupIdle
    /\ ExtractIdle
    /\ MatchIdle
    /\ PlaylistIdle
    /\ NamesIdle
    /\ LinkIdle

\* apple_ids = extract_apple_music_ids(apple_music_links)
ExtractAppleMusicIds ==
    /\ pc = "extract_apple_music_ids"
    /\ apple_ids' = extract_apple_music_ids(apple_links)
    /\ pc' = "apple_ids_extracted"
    /\ UNCHANGED <<apple_links, chunkVars, dedupVars, extractVars, matchVars, playlistVars,
                   nameVars, linkVars, fileVars, mainVars>>

NextAppleIds == ExtractAppleMusicIds

SpecAppleIds == InitAppleIds /\ [][NextAppleIds]_vars

\* The ID that the classification track, then playlist, then album gives for
\* a link, stopping at the first that matches.
ClassifiedId(link) ==
    IF track_id_match(link) # <<>> THEN <<"tracks", track_id_match(link)>>
    ELSE IF playlist_id_match(link) # <<>> THEN <<"playlists", playlist_id_match(link)>>
    ELSE IF album_id_part(link) # <<>> THEN <<"albums", album_id_part(link)>>
    ELSE <<>>

ClassifiedIds(link_list, category) ==
    {ClassifiedId(link_list[i])[2] : i \in {j \in 1..Len(link_list) :
        ClassifiedId(link_list[j]) # <<>> /\ ClassifiedId(link_list[j])[1] = category}}

\* C22: each link gives at most one ID, that of the first of track (i=digits),
\* playlist (pl.token), album (first all-digit path segment) that matches; a
\* link without i=digits and without pl.token but with an all-digit path
\* segment gives that segment as an album ID.
C22_FirstMatchingClassification ==
    pc = "apple_ids_extracted" =>
        /\ apple_ids.tracks = ClassifiedIds(apple_links, "tracks")
        /\ apple_ids.playlists = ClassifiedIds(apple_links, "playlists")
        /\ apple_ids.albums = ClassifiedIds(apple_links, "albums")
        /\ Cardinality(apple_ids.tracks) + Cardinality(apple_ids.playlists)
              + Cardinality(apple_ids.albums) <= Len(apple_links)

(***************************************************************************)
(* create_matched_playlist.main: clean-up of the invalid album IDs of the  *)
(* run before, the ID set of the two files, the playlists of its chunks    *)
(***************************************************************************)
MaxMatches == 1
MaxSpotifyLinks == 2

\* split_data_into_chunks(combined_data, 150): the capacity, scaled down with
\* the inputs to the weight of one album.
main_max_per_playlist == songs_per_album

\* "open.spotify.com/album/" in spotify_url
is_album_url(spotify_url) ==
    \E i \in 1..(Len(spotify_url) - 1) :
        spotify_url[i] = "open.spotify.com" /\ spotify_url[i + 1] = "album"

RECURSIVE filter_matches(_, _, _)
\* "Filter out matches with invalid album IDs", from position i on
filter_matches(matched, invalid_ids, i) ==
    IF i > Len(matched) THEN <<>>
    ELSE LET match == matched[i]
             skip == /\ match.type = "album"
                     /\ is_album_url(match.spotify_url)
                     /\ spotify_id_of(match.spotify_url) \in Range(invalid_ids)
         IN  (IF skip THEN <<>> ELSE <<match>>)
                \o filter_matches(matched, invalid_ids, i + 1)

RECURSIVE filter_ids(_, _, _)
\* [album_id for album_id in album_ids if album_id not in invalid_ids]
filter_ids(album_ids, invalid_ids, i) ==
    IF i > Len(album_ids) THEN <<>>
    ELSE (IF album_ids[i] \in Range(invalid_ids) THEN <<>> ELSE <<album_ids[i]>>)
            \o filter_ids(album_ids, invalid_ids, i + 1)

RECURSIVE filter_links(_, _, _)
\* "Also filter links", from position i on
filter_links(spotify_links, invalid_ids, i) ==
    IF i > Len(spotify_links) THEN <<>>
    ELSE LET link == spotify_links[i]
             skip == is_album_url(link) /\ spotify_id_of(link) \in Range(invalid_ids)
         IN  (IF skip THEN <<>> ELSE <<link>>)
                \o filter_links(spotify_links, invalid_ids, i + 1)

\* "Update music links file": the links are filtered only when an ID was
\* removed from the album IDs.
clean_music_links(music_data, invalid_ids) ==
    LET filtered_album_ids == filter_ids(music_data.ids.albums, invalid_ids, 1)
    IN  IF Len(filtered_album_ids) < Len(music_data.ids.albums)
        THEN [ids |-> [music_data.ids EXCEPT !.albums = filtered_album_ids],
              links |-> filter_links(music_data.links, invalid_ids, 1)]
        ELSE music_data

RECURSIVE links_loop(_, _, _)
\* "Also process any Spotify links", from position i on
links_loop(spotify_links, i, ids) ==
    IF i > Len(spotify_links) THEN ids
    ELSE LET item_type == spotify_links[i][Len(spotify_links[i]) - 1]
             item_id == spotify_id_of(spotify_links[i])
             category == CASE item_type = "track" -> "tracks"
                           [] item_type = "album" -> "albums"
                           [] item_type = "playlist" -> "playlists"
                           [] OTHER -> "none"
         IN  links_loop(spotify_links, i + 1,
                IF category # "none" /\ item_id \notin Range(ids[category])
                THEN [ids EXCEPT ![category] = Append(@, item_id)]
                ELSE ids)

extract_spotify_ids_from_music_links(music_data) ==
    links_loop(music_data.links, 1, music_data.ids)

\* list(set(...)): the elements of a set in one of their orders.
ListsOfSet(S) ==
    {ids \in SeqsUpTo(S, Cardinality(S)) : Len(ids) = Cardinality(S) /\ Range(ids) = S}

\* The values combine_spotify_data can return.
combine_spotify_data(data1, data2) ==
    LET category(d, c) == IF c \in DOMAIN d THEN Range(d[c]) ELSE {}
    IN  {[tracks |-> t, albums |-> a, playlists |-> p] :
            t \in ListsOfSet(category(data1, "tracks") \cup category(data2, "tracks")),
            a \in ListsOfSet(category(data1, "albums") \cup category(data2, "albums")),
            p \in ListsOfSet(category(data1, "playlists") \cup category(data2, "playlists"))}

\* The matches that find_equivalents writes: a song, and an album, whose
\* spotify_url is that of the first track of the album.
MatchEntries ==
    {[apple_music_link |-> SongLink, spotify_url |-> <<"open.spotify.com", "track", 1>>,
      type |-> "song"],
     [apple_music_link |-> AlbumLink, spotify_url |-> <<"open.spotify.com", "track", 5>>,
      type |-> "album"]}

\* The Spotify links of the chat export.
SpotifyLinks ==
    {<<"open.spotify.com", "album", 101>>, <<"open.spotify.com", "album", 102>>,
     <<"open.spotify.com", "track", 1>>}

\* music_links.json: the Spotify links and the IDs extracted from them.
MusicLinksFile(spotify_links) ==
    [ids |-> links_loop(spotify_links, 1, [tracks |-> <<>>, albums |-> <<>>, playlists |-> <<>>]),
     links |-> spotify_links]

\* The invalid-IDs file that a run before left: none, or one of the album IDs
\* that the two files give.
LeftInvalidFiles(matches_data, music_data) ==
    {NoneResult}
    \cup {[invalid_album_ids |-> <<id>>] :
            id \in Range(extract_spotify_ids_from_matches(matches_data).albums)
                   \cup Range(extract_spotify_ids_from_music_links(music_data).albums)}

InitMain ==
    /\ matches_file \in {[matched |-> m, not_found |-> <<>>] :
                            m \in SeqsUpTo(MatchEntries, MaxMatches)}
    /\ music_links_file \in {MusicLinksFile(l) : l \in SeqsUpTo(SpotifyLinks, MaxSpotifyLinks)}
    /\ invalid_file \in LeftInvalidFiles(matches_file, music_links_file)
    /\ removed_invalid_ids = <<>>
    /\ match_spotify_data = NoneResult
    /\ combined_data = NoneResult
    /\ chunk_index = 0
    /\ created_playlists = <<>>
    /\ invalid_by_chunk = <<>>
    /\ file_by_chunk = <<>>
    /\ spotify_data = [tracks |-> <<>>, albums |-> <<>>]
    /\ max_per_playlist = main_max_per_playlist
    /\ chunks = <<>>
    /\ playlist_id = NoneResult
    /\ add_calls = <<>>
    /\ album_calls = <<>>
    /\ album_tracks = <<>>
    /\ invalid_album_ids = <<>>
    /\ playlist_return = NoneResult
    /\ pc = "main"
    /\ DedupIdle
    /\ ExtractIdle
    /\ MatchIdle
    /\ NamesIdle
    /\ LinkIdle
    /\ AppleIdIdle
    /\ FileIdle

mainOtherVars == <<dedupVars, extractVars, matchVars, nameVars, linkVars, appleIdVars,
                   fileVars>>

\* main: the choice to clean up, and remove_invalid_album_ids; os.remove can
\* fail, which the function reports and passes over.
RemoveInvalidAlbumIds ==
    /\ pc = "main"
    /\ \E choice \in {"y", "n"}, removed \in BOOLEAN :
          LET invalid_ids == IF invalid_file = NoneResult THEN <<>>
                             ELSE invalid_file.invalid_album_ids
          IN  IF invalid_file = NoneResult \/ choice # "y" \/ invalid_ids = <<>>
              THEN UNCHANGED <<matches_file, music_links_file, invalid_file,
                               removed_invalid_ids>>
              ELSE /\ matches_file' =
                         [matches_file EXCEPT
                             !.matched = filter_matches(@, invalid_ids, 1)]
                   /\ music_links_file' = clean_music_links(music_links_file, invalid_ids)
                   /\ invalid_file' = IF removed THEN NoneResult ELSE invalid_file
                   /\ removed_invalid_ids' = invalid_ids
    /\ pc' = "results_saved"
    /\ UNCHANGED <<chunkVars, playlist_id, add_calls, album_calls, album_tracks,
                   invalid_album_ids, playlist_return, match_spotify_data, combined_data,
                   chunk_index, created_playlists, invalid_by_chunk, file_by_chunk,
                   mainOtherVars>>

\* music_spotify_data = extract_spotify_ids_from_music_links(MUSIC_LINKS_JSON)
\* combined_data = combine_spotify_data(match_spotify_data, music_spotify_data)
CombineSpotifyData ==
    /\ pc = "matches_extracted"
    /\ \E combined \in combine_spotify_data(match_spotify_data,
                          extract_spotify_ids_from_music_links(music_links_file)) :
          /\ combined_data' = combined
          /\ spotify_data' = combined
    /\ pc' = "split"
    /\ UNCHANGED <<max_per_playlist, chunks, playlistVars, matches_file, music_links_file,
                   removed_invalid_ids, match_spotify_data, chunk_index, created_playlists,
                   invalid_by_chunk, file_by_chunk, mainOtherVars>>

\* "for i, chunk in enumerate(chunks)": the call of create_spotify_playlist
\* for the next chunk, or the end of the loop.
CreatePlaylistForChunk ==
    /\ pc \in {"split_done", "next_chunk"}
    /\ IF chunk_index < Len(chunks)
       THEN /\ chunk_index' = chunk_index + 1
            /\ spotify_data' = chunks[chunk_index + 1]
            /\ playlist_id' = NoneResult
            /\ add_calls' = <<>>
            /\ album_calls' = <<>>
            /\ album_tracks' = <<>>
            /\ invalid_album_ids' = <<>>
            /\ playlist_return' = NoneResult
            /\ pc' = "authenticate"
       ELSE /\ pc' = "main_done"
            /\ UNCHANGED <<chunk_index, spotify_data, playlist_id, add_calls, album_calls,
                           album_tracks, invalid_album_ids, playlist_return>>
    /\ UNCHANGED <<max_per_playlist, chunks, invalid_file, matches_file, music_links_file,
                   removed_invalid_ids, match_spotify_data, combined_data,
                   created_playlists, invalid_by_chunk, file_by_chunk, mainOtherVars>>

\* "if playlist_id: created_playlists.append(playlist_id)"
PlaylistOfChunkReturned ==
    /\ pc = "playlist_returned"
    /\ created_playlists' = IF playlist_return # NoneResult
                            THEN Append(created_playlists, playlist_return)
                            ELSE created_playlists
    /\ invalid_by_chunk' = Append(invalid_by_chunk, invalid_album_ids)
    /\ file_by_chunk' = Append(file_by_chunk, invalid_file)
    /\ pc' = "next_chunk"
    /\ UNCHANGED <<chunkVars, playlistVars, matches_file, music_links_file,
                   removed_invalid_ids, match_spotify_data, combined_data, chunk_index,
                   mainOtherVars>>

NextMain ==
    \/ RemoveInvalidAlbumIds
    \/ ExtractSpotifyIdsFromMatches
    \/ CombineSpotifyData
    \/ SplitDataIntoChunks
    \/ CreatePlaylistForChunk
    \/ Authenticate
    \/ CurrentUser
    \/ UserPlaylistCreate
    \/ AddTracks
    \/ AlbumTracks
    \/ AddAlbumTracks
    \/ SaveInvalidAlbumIds
    \/ ReturnPlaylistId
    \/ PlaylistOfChunkReturned

SpecMain == InitMain /\ [][NextMain]_vars

\* The album IDs in the invalid-IDs file.
RecordedIds(file) == IF file = NoneResult THEN {} ELSE Range(file.invalid_album_ids)

\* C27: when main has created the playlists of all chunks, every album ID
\* that was rejected and recorded in some chunk of the run is still in the
\* recorded list: the record of a later chunk does not erase it.
C27_InvalidIdsOfAllChunks ==
    pc = "main_done" =>
        \A k \in 1..Len(invalid_by_chunk) :
            \A id \in Range(invalid_by_chunk[k]) \cap RecordedIds(file_by_chunk[k]) :
                id \in RecordedIds(invalid_file)

\* C28: after remove_invalid_album_ids has run for a list of invalid album
\* IDs, the ID set rebuilt from the cleaned files has none of them among its
\* albums, and the invalid-IDs file no longer exists.
C28_InvalidIdsGoneAfterCleanUp ==
    (pc = "split" /\ removed_invalid_ids # <<>>) =>
        /\ \A id \in Range(removed_invalid_ids) : id \notin Range(combined_data.albums)
        /\ invalid_file = NoneResult
====
